---- MODULE Spec2Model ----
(***************************************************************************)
(* Model of the infra_cc dependency framework (deps.py), its plugin        *)
(* loader, and the tiered teardown orchestrator's NAT deletion gate        *)
(* (full_setup.py).                                                        *)
(*                                                                         *)
(* Five specifications share the module:                                   *)
(*   SpecTeardown  prompt_and_delete on a Blocker tree (deps.py)           *)
(*   SpecPlugins   _ensure_plugins_loaded_once (deps.py)                   *)
(*   SpecTier      down_routing / down_network (full_setup.py)             *)
(*   SpecSpinner   the progress reporter's two threads (full_setup.py)     *)
(*   SpecBuild     build_tree (deps.py)                                    *)
(***************************************************************************)
EXTENDS Integers, Sequences, FiniteSets, TLC

(***************************************************************************)
(* Bounds of the model.                                                    *)
(***************************************************************************)
MaxNodes == 3        \* largest Blocker tree (number of nodes)
MaxEnsureCalls == 4  \* calls of _ensure_plugins_loaded_once in one process
CountdownTicks == 2  \* countdown length in (scaled) one-second ticks
MaxOps == 2          \* operations of the foreground between start and stop
MaxAdvances == 2     \* times the clock moves during the bodies of the steps
MaxRes == 3
\* register_checker / register_deleter calls in one run
MaxRegs == 3
\* polls that fit into the timeout of a wait
TimeoutPolls == 3
\* resources a lookup's filter can match
MaxMatches == 3
\* invocations of a deleter on one identifier
MaxRuns == 2
\* runs of one up tier operation against the same provider state
MaxUpRuns == 2
\* tier operations run one after the other in one process
MaxTierOps == 3

VARIABLES
    \* ---- deps.py: registries and loader ----
    DELETERS,        \* _DELETERS: kind -> name of the registered function
    CHECKERS,        \* _CHECKERS: kind -> name of the registered function
    PLUGINS_LOADED,  \* _PLUGINS_LOADED
    sysModules,      \* sys.modules restricted to the package's modules
    initCount,       \* module -> number of times its body ran to completion
    regCount,        \* module -> number of times its registrations executed
    lpc,             \* position of the loader: "idle", "loop", "finally"
    loadIdx,         \* index of the loop of line 48 into PkgModules
    loadRaised,      \* an import raised in the call in progress
    ensureCalls,     \* calls of _ensure_plugins_loaded_once made so far
    importsInCall,   \* imports (line 53) executed by the call in progress
    lateImports,     \* imports executed by calls after the first one
    \* ---- deps.py: a Blocker tree and prompt_and_delete ----
    kind,            \* node -> Blocker.kind
    children,        \* node -> Blocker.children (a sequence of nodes)
    delete_root,     \* argument of prompt_and_delete
    pc,              \* position in prompt_and_delete
    stack,           \* frames of _delete_tree_postorder
    calls,           \* deleter invocations so far, in order
    deleted,         \* nodes whose deleter returned normally
    inflight,        \* number of deleter calls in progress
    failedNode,      \* node whose deleter raised (0: none)
    inputsRead,      \* number of input() reads
    ans,             \* the line read by input() at line 134
    outcome,         \* how prompt_and_delete ended
    errKinds,        \* kinds named by the DeleteBlocked message
    \* ---- full_setup.py: down_routing / down_network ----
    op,              \* "none", "routing", "network"
    purge,           \* argument of down_network
    tpc,             \* position in the tier operation
    need_nat_delete, \* local of down_network
    elapsed,         \* whole seconds elapsed in the countdown
    spinner_prompt,  \* _spinner_prompt
    spinner_on,      \* the reporter is started
    tlog,            \* events of the tier operation, in order
    texit,           \* how the tier operation ended
    \* ---- full_setup.py: the progress reporter and the stdout proxy ----
    spinner_stop,      \* _spinner_stop.is_set()
    spinner_lock,      \* holder of _spinner_lock: "none", "fg", "loop"
    current_task,      \* _current_task: 0 is "starting...", k the k-th label
    task_start,        \* _task_start
    prompt_line_drawn, \* _prompt_line_drawn
    seal_pending,      \* _seal_pending
    stdout_patched,    \* sys.stdout is the proxy
    rpc,               \* position of the render loop thread
    l_per,             \* local per of _spinner_loop, in seconds
    l_from,            \* the _task_start that l_per was computed from
    l_task,            \* local task of _spinner_loop
    l_prompt,          \* local prompt of _spinner_loop
    fpc,               \* position of the foreground thread
    fret,              \* where the foreground goes on after a print
    chunk,             \* the write of print() in progress: "text", "nl"
    do_seal,           \* local do_seal of _StdoutProxy.write
    per_seconds,       \* local per_seconds (proxy write / _run_step)
    t0,                \* local t0 of _run_step
    now,               \* time.time(), in whole seconds
    ops,               \* operations the foreground has begun
    advances,          \* times the clock has moved
    term,              \* what the terminal's current line holds
    lastw,             \* the last write to the terminal
    loopw,             \* the last write to the terminal by the render loop
    task_starts,       \* start time of every task label so far
    spinner_prompt_msg, \* _spinner_prompt_msg: the activation whose message it is
    l_msg,             \* local prompt_msg of _spinner_loop
    painted,           \* a frame was written since the line was last sealed or cleared
    banners,           \* the messages of the banners written, in order
    \* ---- deps.py: build_tree ----
    world_kind,        \* resource -> its kind
    reports,           \* resource -> what the checker reports for it
    node_id,           \* node -> Blocker.id (a resource)
    bstack,            \* frames of _expand_recursive
    bpc,               \* position in build_tree
    checker_calls,     \* checker invocations so far, in order
    bout,               \* how build_tree ended
    \* ---- histories and provider state of the operations checked on their own ----
    registered,        \* the register_checker / register_deleter calls made, in order
    \* ---- full_setup.py / natgw.py: a wait for a resource state ----
    w_site,            \* the operation that waits
    w_pc,              \* "wait", "returned", "raised", "next" (goes on), "aborted"
    w_elapsed,         \* polls slept since the wait began
    w_last,            \* last_state of _wait_nat_state
    w_res,             \* what the wait returned or raised
    w_out,             \* lines written, by tag, in order
    w_polls,           \* the polls made: when (in polls slept) and the answer
    \* ---- the lookups of one resource by name ----
    lk_fn,             \* the lookup function called
    lk_found,          \* the resources the provider's answer lists, in order
    lk_pc,             \* "call", "returned", "aborted", "used"
    lk_id,             \* the resource the lookup returned (0: None)
    \* ---- the registered deleters, one invoked on one identifier ----
    dl_fn,             \* the deleter
    dl_step,           \* index of its next provider call
    dl_pc,             \* "run", "returned", "raised"
    dl_log,            \* the provider's answers in this invocation, in order
    dl_exists,         \* the provider holds the resource
    dl_runs,           \* invocations begun
    \* ---- full_setup.py: an up tier operation, run again after it succeeded ----
    up_op,             \* "up_network", "up_routing" or "up_ec2"
    up_run,            \* which run of the operation this is
    up_step,           \* index of the next _run_step of the operation
    up_pc,             \* "run", "done", "aborted"
    prov,              \* the resources the provider holds
    up_calls,          \* changing provider calls issued in this run, in order
    prov_first,        \* the resources the provider held when the first run ended
    \* ---- full_setup.py: the reporter over several tier operations ----
    threads,           \* position of every render thread created so far
    stop_event,        \* _spinner_stop
    ses_pc,            \* "idle", "steps", "join", "unpatch"
    ses_ops            \* tier operations begun in this process

depsVars == <<DELETERS, CHECKERS, PLUGINS_LOADED, sysModules, initCount, regCount,
              lpc, loadIdx, loadRaised, ensureCalls, importsInCall, lateImports>>
treeVars == <<kind, children, delete_root, pc, stack, calls, deleted, inflight,
              failedNode, inputsRead, ans, outcome, errKinds>>
tierVars == <<op, purge, tpc, need_nat_delete, elapsed, spinner_prompt, spinner_on,
              tlog, texit>>
spinVars == <<spinner_stop, spinner_lock, current_task, task_start,
              prompt_line_drawn, seal_pending, stdout_patched, rpc, l_per, l_from,
              l_task, l_prompt, fpc, fret, chunk, do_seal, per_seconds, t0, now,
              ops, advances, term, lastw, loopw, task_starts,
              spinner_prompt_msg, l_msg, painted, banners>>
\* the tier's variables but _spinner_prompt, which the reporter shares
tierRest == <<op, purge, tpc, need_nat_delete, elapsed, spinner_on, tlog, texit>>
buildVars == <<world_kind, reports, node_id, bstack, bpc, checker_calls, bout>>
regVars == <<registered>>
waitVars == <<w_site, w_pc, w_elapsed, w_last, w_res, w_out, w_polls>>
lookVars == <<lk_fn, lk_found, lk_pc, lk_id>>
delVars == <<dl_fn, dl_step, dl_pc, dl_log, dl_exists, dl_runs>>
upVars == <<up_op, up_run, up_step, up_pc, prov, up_calls, prov_first>>
sesVars == <<threads, stop_event, ses_pc, ses_ops>>
opVars == <<regVars, waitVars, lookVars, delVars, upVars, sesVars>>
vars == <<depsVars, treeVars, tierVars, spinVars, buildVars, opVars>>

(***************************************************************************)
(* Input lines and their normalisation, str.strip().lower().               *)
(* A line is a sequence of one-character strings.                          *)
(***************************************************************************)
IsSpace(c) == c \in {" ", "\t", "\n"}

Lower(c) ==
    CASE c = "Y" -> "y"
      [] c = "E" -> "e"
      [] c = "S" -> "s"
      [] c = "N" -> "n"
      [] c = "O" -> "o"
      [] OTHER -> c

RECURSIVE LStrip(_)
LStrip(s) ==
    IF s = <<>> THEN <<>>
    ELSE IF IsSpace(Head(s)) THEN LStrip(Tail(s)) ELSE s

RECURSIVE RStrip(_)
RStrip(s) ==
    IF s = <<>> THEN <<>>
    ELSE IF IsSpace(s[Len(s)]) THEN RStrip(SubSeq(s, 1, Len(s) - 1)) ELSE s

StripLeftOnly(s) == LStrip(s)

Strip(s) == RStrip(LStrip(s))

LowerStr(s) == [i \in 1..Len(s) |-> Lower(s[i])]

\* ans = input(...).strip().lower();  ans in ("y", "yes")
Affirmative(s) == LowerStr(Strip(s)) \in {<<"y">>, <<"y", "e", "s">>}

\* The lines the user may type.
Inputs ==
    { <<>>, <<"y">>, <<" ", "Y", "E", "S", " ">>, <<"n", "o">>, <<"y", "e">> }

(***************************************************************************)
(* Blocker trees.  Node 1 is the root; a node's id is its number.          *)
(***************************************************************************)
Kinds == {"vpc", "subnet", "eni"}
Root == 1

RECURSIVE SetToSeqAsc(_)
SetToSeqAsc(S) ==
    IF S = {} THEN <<>>
    ELSE LET m == CHOOSE x \in S : \A y \in S : x <= y
         IN  <<m>> \o SetToSeqAsc(S \ {m})

Reverse(s) == [i \in 1..Len(s) |-> s[Len(s) - i + 1]]

\* The parent maps of the trees on nodes 1..n
ParentMaps(n) == { p \in [2..n -> 1..n] : \A i \in 2..n : p[i] < i }

\* The children lists of a tree, siblings in ascending or in descending order
ChildrenMap(n, p, desc) ==
    [ x \in 1..n |->
        LET asc == SetToSeqAsc({ i \in 2..n : p[i] = x })
        IN  IF desc THEN Reverse(asc) ELSE asc ]

Trees == UNION { { ChildrenMap(n, p, d) : p \in ParentMaps(n), d \in BOOLEAN }
                 : n \in 1..MaxNodes }

Nodes == DOMAIN children

(***************************************************************************)
(* deps.py: deletion (post-order)                                          *)
(***************************************************************************)
Registered(k) == k \in DOMAIN DELETERS

\* _collect_missing_deleters(node), lines 86-93
RECURSIVE CollectMissingKids(_, _)
RECURSIVE CollectMissing(_)
CollectMissing(n) ==
    (IF Registered(kind[n]) THEN {} ELSE {kind[n]}) \cup CollectMissingKids(n, 1)
CollectMissingKids(n, i) ==
    IF i > Len(children[n]) THEN {}
    ELSE CollectMissing(children[n][i]) \cup CollectMissingKids(n, i + 1)

\* lines 126-129: the kinds the pre-flight check reports
MissingForPrompt(dr) ==
    LET missing == CollectMissing(Root)
    IN  IF missing # {} /\ ~dr /\ kind[Root] \in missing
        THEN missing \ {kind[Root]}
        ELSE missing

HasChildrenAlways(n) == TRUE

\* line 113: "if not root.children" is the negation of this
HasChildren(n) == children[n] # <<>>

ChildAtReversed(n, i) == children[n][Len(children[n]) - i + 1]

\* line 96 / line 142: "for ch in node.children", the i-th child visited
ChildAt(n, i) == children[n][i]

ChildrenLeftNever(f) == FALSE

\* line 96: the loop over node.children has a child left to visit
ChildrenLeft(f) == f.idx <= Len(children[f.node])

UnwindSwallow(stk) == SubSeq(stk, 1, Len(stk) - 1)

\* an exception raised by a deleter propagates through every frame of
\* _delete_tree_postorder (lines 95-101 hold no try/except)
Unwind(stk) == <<>>

Frame(n, isTop) == [node |-> n, idx |-> 1, top |-> isTop]
Call(n) == [kind |-> kind[n], id |-> n]

\* prompt_and_delete, lines 110-132: loader call, fast path, pre-flight check
PD_Entry ==
    /\ pc = "entry"
    /\ IF ~HasChildren(Root)
       THEN IF delete_root
            THEN IF ~Registered(kind[Root])
                 THEN /\ pc' = "done"
                      /\ outcome' = "missing"
                      /\ errKinds' = {kind[Root]}
                      /\ UNCHANGED <<calls, inflight>>
                 ELSE /\ pc' = "in_deleter"
                      /\ calls' = Append(calls, Call(Root))
                      /\ inflight' = inflight + 1
                      /\ UNCHANGED <<outcome, errKinds>>
            ELSE /\ pc' = "done"
                 /\ outcome' = "ok"
                 /\ UNCHANGED <<calls, inflight, errKinds>>
       ELSE LET missing == MissingForPrompt(delete_root)
            IN  IF missing # {}
                THEN /\ pc' = "done"
                     /\ outcome' = "missing"
                     /\ errKinds' = missing
                     /\ UNCHANGED <<calls, inflight>>
                ELSE /\ pc' = "prompt"
                     /\ UNCHANGED <<calls, inflight, outcome, errKinds>>
    /\ UNCHANGED <<kind, children, delete_root, stack, deleted, failedNode,
                   inputsRead, ans>>
    /\ UNCHANGED <<depsVars, tierVars, spinVars, buildVars, opVars>>

\* lines 134-143: the prompt, and the start of the walk
PD_Prompt ==
    /\ pc = "prompt"
    /\ \E line \in Inputs :
        /\ ans' = line
        /\ inputsRead' = inputsRead + 1
        /\ IF ~Affirmative(line)
           THEN /\ pc' = "done"
                /\ outcome' = "declined"
                /\ UNCHANGED stack
           ELSE /\ pc' = "walk"
                /\ stack' = <<Frame(Root, ~delete_root)>>
                /\ UNCHANGED outcome
    /\ UNCHANGED <<kind, children, delete_root, calls, deleted, inflight,
                   failedNode, errKinds>>
    /\ UNCHANGED <<depsVars, tierVars, spinVars, buildVars, opVars>>

Top == stack[Len(stack)]
Pop(stk) == SubSeq(stk, 1, Len(stk) - 1)

\* lines 96-97 (and 142-143): recurse into the next child
PD_Descend ==
    /\ pc = "walk"
    /\ stack # <<>>
    /\ ChildrenLeft(Top)
    /\ stack' = Append([stack EXCEPT ![Len(stack)].idx = @ + 1],
                       Frame(ChildAt(Top.node, Top.idx), FALSE))
    /\ UNCHANGED <<kind, children, delete_root, pc, calls, deleted, inflight,
                   failedNode, inputsRead, ans, outcome, errKinds>>
    /\ UNCHANGED <<depsVars, tierVars, spinVars, buildVars, opVars>>

\* lines 142-143: the loop of prompt_and_delete over root.children ends
PD_LoopEnd ==
    /\ pc = "walk"
    /\ stack # <<>>
    /\ ~ChildrenLeft(Top)
    /\ Top.top
    /\ stack' = <<>>
    /\ pc' = "done"
    /\ outcome' = "ok"
    /\ UNCHANGED <<kind, children, delete_root, calls, deleted, inflight,
                   failedNode, inputsRead, ans, errKinds>>
    /\ UNCHANGED <<depsVars, tierVars, spinVars, buildVars, opVars>>

\* lines 98-100: no deleter for the node's kind
PD_NoDeleter ==
    /\ pc = "walk"
    /\ stack # <<>>
    /\ ~ChildrenLeft(Top)
    /\ ~Top.top
    /\ ~Registered(kind[Top.node])
    /\ stack' = <<>>
    /\ pc' = "done"
    /\ outcome' = "no_deleter"
    /\ errKinds' = {kind[Top.node]}
    /\ UNCHANGED <<kind, children, delete_root, calls, deleted, inflight,
                   failedNode, inputsRead, ans>>
    /\ UNCHANGED <<depsVars, tierVars, spinVars, buildVars, opVars>>

\* line 101: deleter(node.id) is called
PD_InvokeDeleter ==
    /\ pc = "walk"
    /\ stack # <<>>
    /\ ~ChildrenLeft(Top)
    /\ ~Top.top
    /\ Registered(kind[Top.node])
    /\ calls' = Append(calls, Call(Top.node))
    /\ inflight' = inflight + 1
    /\ pc' = "in_deleter"
    /\ UNCHANGED <<kind, children, delete_root, stack, deleted, failedNode,
                   inputsRead, ans, outcome, errKinds>>
    /\ UNCHANGED <<depsVars, tierVars, spinVars, buildVars, opVars>>

Current == calls[Len(calls)].id

\* line 101 / line 118: the deleter returns
PD_DeleterReturn ==
    /\ pc = "in_deleter"
    /\ inflight' = inflight - 1
    /\ deleted' = deleted \cup {Current}
    /\ stack' = Pop(stack)
    /\ IF Pop(stack) = <<>>
       THEN pc' = "done" /\ outcome' = "ok"
       ELSE pc' = "walk" /\ UNCHANGED outcome
    /\ UNCHANGED <<kind, children, delete_root, calls, failedNode, inputsRead,
                   ans, errKinds>>
    /\ UNCHANGED <<depsVars, tierVars, spinVars, buildVars, opVars>>

\* line 101 / line 118: the deleter raises
PD_DeleterRaise ==
    /\ pc = "in_deleter"
    /\ inflight' = inflight - 1
    /\ failedNode' = Current
    /\ stack' = Unwind(stack)
    /\ IF Unwind(stack) = <<>>
       THEN pc' = "done" /\ outcome' = "deleter_error"
       ELSE pc' = "walk" /\ UNCHANGED outcome
    /\ UNCHANGED <<kind, children, delete_root, calls, deleted, inputsRead,
                   ans, errKinds>>
    /\ UNCHANGED <<depsVars, tierVars, spinVars, buildVars, opVars>>

NextTeardown ==
    \/ PD_Entry
    \/ PD_Prompt
    \/ PD_Descend
    \/ PD_LoopEnd
    \/ PD_NoDeleter
    \/ PD_InvokeDeleter
    \/ PD_DeleterReturn
    \/ PD_DeleterRaise

(***************************************************************************)
(* deps.py: registration decorators and the plugin loader                  *)
(***************************************************************************)
\* pkgutil.iter_modules(pkg_path): the modules of the package, by name
PkgModules ==
    <<"deps", "ec2nodes", "full_setup", "igw", "naming", "natgw", "routes",
      "session", "subnet", "vpc">>
ModuleSet == { PkgModules[i] : i \in 1..Len(PkgModules) }

\* the package-relative imports at the top of each module, in file order
Imports(m) ==
    CASE m = "ec2nodes"   -> <<"session", "naming", "vpc">>
      [] m = "full_setup" -> <<"vpc", "subnet", "igw", "natgw", "routes",
                               "ec2nodes", "session">>
      [] m = "igw"        -> <<"session", "naming", "vpc", "deps">>
      [] m = "natgw"      -> <<"session", "naming", "vpc", "deps">>
      [] m = "routes"     -> <<"session", "naming", "vpc", "igw", "natgw">>
      [] m = "subnet"     -> <<"session", "naming", "vpc", "deps">>
      [] m = "vpc"        -> <<"session", "naming", "deps">>
      [] OTHER            -> <<>>

\* the registrations a module's body executes, in file order
Registrations(m) ==
    CASE m = "igw"    -> << [reg |-> "deleter", kind |-> "internet-gateway",
                             fn |-> "igw._delete_igw"] >>
      [] m = "natgw"  -> << [reg |-> "checker", kind |-> "nat-gateway",
                             fn |-> "natgw._check_nat_blockers"],
                            [reg |-> "deleter", kind |-> "nat-gateway",
                             fn |-> "natgw._delete_nat"] >>
      [] m = "subnet" -> << [reg |-> "checker", kind |-> "subnet",
                             fn |-> "subnet._check_subnet_blockers"],
                            [reg |-> "deleter", kind |-> "subnet",
                             fn |-> "subnet._delete_subnet"] >>
      [] m = "vpc"    -> << [reg |-> "checker", kind |-> "vpc",
                             fn |-> "vpc._check_vpc_blockers"],
                            [reg |-> "deleter", kind |-> "internet-gateway",
                             fn |-> "vpc._delete_igw"],
                            [reg |-> "deleter", kind |-> "security-group",
                             fn |-> "vpc._delete_sg"],
                            [reg |-> "deleter", kind |-> "vpc",
                             fn |-> "vpc._delete_vpc"] >>
      [] OTHER        -> <<>>

\* the modules whose body registers something
Plugins == { m \in ModuleSet : Registrations(m) # <<>> }

RegisterKeepFirst(registry, k, fn) ==
    [x \in (DOMAIN registry) \cup {k} |->
        IF x \in DOMAIN registry THEN registry[x] ELSE fn]

\* _CHECKERS[kind] = fn / _DELETERS[kind] = fn
Register(registry, k, fn) ==
    [x \in (DOMAIN registry) \cup {k} |-> IF x = k THEN fn ELSE registry[x]]

RECURSIVE ApplyRegs(_, _, _)
ApplyRegs(registry, which, regs) ==
    IF regs = <<>> THEN registry
    ELSE ApplyRegs(IF Head(regs).reg = which
                   THEN Register(registry, Head(regs).kind, Head(regs).fn)
                   ELSE registry,
                   which, Tail(regs))

RECURSIVE ApplyModules(_, _, _)
ApplyModules(registry, which, mods) ==
    IF mods = <<>> THEN registry
    ELSE ApplyModules(ApplyRegs(registry, which, Registrations(Head(mods))),
                      which, Tail(mods))

Range(s) == { s[i] : i \in 1..Len(s) }

\* The modules whose bodies run, in the order they complete, when module m is
\* imported while the modules of `done` are in sys.modules.
RECURSIVE ImportOrder(_, _)
RECURSIVE ImportOrderList(_, _)
ImportOrder(m, done) ==
    IF m \in done THEN <<>>
    ELSE ImportOrderList(Imports(m), done) \o <<m>>
ImportOrderList(ms, done) ==
    IF ms = <<>> THEN <<>>
    ELSE LET first == ImportOrder(Head(ms), done)
         IN  first \o ImportOrderList(Tail(ms), done \cup Range(first))

\* sys.modules after the imports of module m (m itself runs as __main__)
RECURSIVE Closure(_)
Closure(ms) ==
    LET more == ms \cup UNION { Range(Imports(m)) : m \in ms }
    IN  IF more = ms THEN ms ELSE Closure(more)

\* line 51: name.startswith("_") or name in ("deps",)
Skipped(name) == name \in {"__main__", "__init__"} \/ name \in {"deps"}

FlagNeverSet(raised) == FALSE

\* lines 54-55: "finally: _PLUGINS_LOADED = True", whatever the try block did
FlagAfterLoad(raised) == TRUE

\* lines 43-44: the flag is set, the call returns at once
Ensure_AlreadyLoaded ==
    /\ lpc = "idle"
    /\ ensureCalls < MaxEnsureCalls
    /\ PLUGINS_LOADED
    /\ ensureCalls' = ensureCalls + 1
    /\ importsInCall' = 0
    /\ loadRaised' = FALSE
    /\ UNCHANGED <<DELETERS, CHECKERS, PLUGINS_LOADED, sysModules, initCount,
                   regCount, lpc, loadIdx, lateImports>>
    /\ UNCHANGED <<treeVars, tierVars, spinVars, buildVars, opVars>>

\* lines 43-48: the flag is not set, the loop over the modules starts
Ensure_Begin ==
    /\ lpc = "idle"
    /\ ensureCalls < MaxEnsureCalls
    /\ ~PLUGINS_LOADED
    /\ ensureCalls' = ensureCalls + 1
    /\ importsInCall' = 0
    /\ loadRaised' = FALSE
    /\ lpc' = "loop"
    /\ loadIdx' = 1
    /\ UNCHANGED <<DELETERS, CHECKERS, PLUGINS_LOADED, sysModules, initCount,
                   regCount, lateImports>>
    /\ UNCHANGED <<treeVars, tierVars, spinVars, buildVars, opVars>>

\* lines 49-52: a private helper or deps itself is skipped
Ensure_Skip ==
    /\ lpc = "loop"
    /\ loadIdx <= Len(PkgModules)
    /\ Skipped(PkgModules[loadIdx])
    /\ loadIdx' = loadIdx + 1
    /\ UNCHANGED <<DELETERS, CHECKERS, PLUGINS_LOADED, sysModules, initCount,
                   regCount, lpc, loadRaised, ensureCalls, importsInCall,
                   lateImports>>
    /\ UNCHANGED <<treeVars, tierVars, spinVars, buildVars, opVars>>

\* The bodies of the modules of `done` have run to completion, and then the
\* registrations `partial` of a body that did not complete.
Initialized(done, partial) ==
    /\ sysModules' = sysModules \cup Range(done)
    /\ initCount' = [m \in ModuleSet |->
                        IF m \in Range(done) THEN initCount[m] + 1 ELSE initCount[m]]
    /\ regCount' = [m \in ModuleSet |->
                        IF m \in Range(done) /\ Registrations(m) # <<>>
                        THEN regCount[m] + 1 ELSE regCount[m]]
    /\ DELETERS' = ApplyRegs(ApplyModules(DELETERS, "deleter", done),
                             "deleter", partial)
    /\ CHECKERS' = ApplyRegs(ApplyModules(CHECKERS, "checker", done),
                             "checker", partial)

\* line 53: importlib.import_module returns; the module and the modules it
\* imports that were not in sys.modules have been initialized
Ensure_Import ==
    /\ lpc = "loop"
    /\ loadIdx <= Len(PkgModules)
    /\ ~Skipped(PkgModules[loadIdx])
    /\ Initialized(ImportOrder(PkgModules[loadIdx], sysModules), <<>>)
    /\ importsInCall' = importsInCall + 1
    /\ lateImports' = IF ensureCalls > 1 THEN lateImports + 1 ELSE lateImports
    /\ loadIdx' = loadIdx + 1
    /\ UNCHANGED <<PLUGINS_LOADED, lpc, loadRaised, ensureCalls>>
    /\ UNCHANGED <<treeVars, tierVars, spinVars, buildVars, opVars>>

\* line 53: importlib.import_module raises: the body of one of the modules
\* to initialize raised, after any number of its registrations; the modules
\* completed before it stay initialized, the failing module and the modules
\* that were importing it are not in sys.modules
Ensure_ImportRaise ==
    /\ lpc = "loop"
    /\ loadIdx <= Len(PkgModules)
    /\ ~Skipped(PkgModules[loadIdx])
    /\ LET order == ImportOrder(PkgModules[loadIdx], sysModules)
       IN  \E k \in 1..Len(order) :
             \E j \in 0..Len(Registrations(order[k])) :
               Initialized(SubSeq(order, 1, k - 1),
                           SubSeq(Registrations(order[k]), 1, j))
    /\ importsInCall' = importsInCall + 1
    /\ lateImports' = IF ensureCalls > 1 THEN lateImports + 1 ELSE lateImports
    /\ loadRaised' = TRUE
    /\ lpc' = "finally"
    /\ UNCHANGED <<PLUGINS_LOADED, loadIdx, ensureCalls>>
    /\ UNCHANGED <<treeVars, tierVars, spinVars, buildVars, opVars>>

\* line 48: the loop has run through the modules
Ensure_LoopEnd ==
    /\ lpc = "loop"
    /\ loadIdx > Len(PkgModules)
    /\ lpc' = "finally"
    /\ UNCHANGED <<DELETERS, CHECKERS, PLUGINS_LOADED, sysModules, initCount,
                   regCount, loadIdx, loadRaised, ensureCalls, importsInCall,
                   lateImports>>
    /\ UNCHANGED <<treeVars, tierVars, spinVars, buildVars, opVars>>

\* lines 54-55: the finally clause; the call returns or re-raises
Ensure_Finally ==
    /\ lpc = "finally"
    /\ PLUGINS_LOADED' = FlagAfterLoad(loadRaised)
    /\ lpc' = "idle"
    /\ UNCHANGED <<DELETERS, CHECKERS, sysModules, initCount, regCount, loadIdx,
                   loadRaised, ensureCalls, importsInCall, lateImports>>
    /\ UNCHANGED <<treeVars, tierVars, spinVars, buildVars, opVars>>

NextPlugins ==
    \/ Ensure_AlreadyLoaded
    \/ Ensure_Begin
    \/ Ensure_Skip
    \/ Ensure_Import
    \/ Ensure_ImportRaise
    \/ Ensure_LoopEnd
    \/ Ensure_Finally

(***************************************************************************)
(* full_setup.py: down_routing and down_network with the NAT deletion gate *)
(***************************************************************************)
\* What describe_nat_gateways answers to _nat_exists: the provider's state is
\* not owned by the program, each check gets its own answer.
NatAnswers == {"present", "absent", "error"}

\* _nat_exists, lines 257-268: a ClientError counts as "does not exist"
NatExistsAlways(answer) == TRUE

NatExists(answer) == answer = "present"

ConfirmAffirmativeAlways(s) == TRUE

\* lines 311-314: ans = input(...).strip().lower(); ans in ("y", "yes")
ConfirmAffirmative(s) == LowerStr(Strip(s)) \in {<<"y">>, <<"y", "e", "s">>}

RemainingLate(seconds, el) == IF seconds - el + 1 > 0 THEN seconds - el + 1 ELSE 0

\* lines 333-334: remaining = max(seconds - elapsed, 0)
Remaining(seconds, el) == IF seconds - el > 0 THEN seconds - el ELSE 0

Event(e) == [ev |-> e, line |-> <<>>]
ConfirmEvent(l) == [ev |-> "confirm", line |-> l]
\* the answer _nat_exists gave to a gate function (lines 301 / 324)
GateCheck(a) == [ev |-> "gate_check", line |-> <<a>>]

\* the lines the confirmation may read from the terminal
ConfirmInputs ==
    Inputs \cup { <<"Y">>, <<" ">>, <<"y", "e", "s", " ">>, <<"y", "e", "s", "s">>,
                  <<"y", " ", "e", "s">> }

AbortSwallowed(how) ==
    /\ tpc' = "nat_step"
    /\ texit' = texit

\* where control goes when _confirm_nat_delete returns (line 433 / line 447)
AfterConfirm == IF op = "routing" THEN "cd_check" ELSE "instances"
\* where control goes after routes.delete_private (line 432 / line 457)
AfterRoutes == IF op = "routing" THEN "confirm_check" ELSE "n_recheck"
\* where control goes after the wait for the NAT (line 436 / line 464)
AfterNatWait == IF op = "routing" THEN "stopping" ELSE "vpc_step"

\* an exception leaves the try block: the finally clause is next
Abort(how) ==
    /\ tpc' = "stopping"
    /\ texit' = how

\* lines 421-423 / 439-441: _spinner_start()
T_Start ==
    /\ tpc = "idle"
    /\ \E o \in {"routing", "network"} :
        /\ op' = o
        /\ purge' \in (IF o = "network" THEN BOOLEAN ELSE {FALSE})
        /\ tpc' = IF o = "routing" THEN "instances" ELSE "n_need"
    /\ spinner_on' = TRUE
    /\ UNCHANGED <<need_nat_delete, elapsed, spinner_prompt, tlog, texit>>
    /\ UNCHANGED <<depsVars, treeVars, spinVars, buildVars, opVars>>

\* lines 443-445: need_nat_delete = _nat_exists()
N_NeedCheck ==
    /\ tpc = "n_need"
    /\ \E a \in NatAnswers :
        /\ need_nat_delete' = NatExists(a)
        /\ tpc' = IF NatExists(a) THEN "confirm_check" ELSE "instances"
    /\ UNCHANGED <<op, purge, elapsed, spinner_prompt, spinner_on, tlog, texit>>
    /\ UNCHANGED <<depsVars, treeVars, spinVars, buildVars, opVars>>

\* lines 425 / 448: if _any_instances_in_vpc()
T_Instances ==
    /\ tpc = "instances"
    /\ \/ tpc' = "ec2_delete" /\ UNCHANGED texit
       \/ tpc' = "routes" /\ UNCHANGED texit
       \/ Abort("error")
    /\ UNCHANGED <<op, purge, need_nat_delete, elapsed, spinner_prompt,
                   spinner_on, tlog>>
    /\ UNCHANGED <<depsVars, treeVars, spinVars, buildVars, opVars>>

\* lines 426 / 449: _run_step("ec2nodes.delete(both)", ...)
T_Ec2Delete ==
    /\ tpc = "ec2_delete"
    /\ \/ /\ tpc' = "ec2_wait"
          /\ tlog' = Append(tlog, Event("ec2_delete"))
          /\ UNCHANGED texit
       \/ Abort("error") /\ UNCHANGED tlog
    /\ UNCHANGED <<op, purge, need_nat_delete, elapsed, spinner_prompt, spinner_on>>
    /\ UNCHANGED <<depsVars, treeVars, spinVars, buildVars, opVars>>

\* lines 427 / 450-451: _spin_until("waiting: EC2 instances gone", ...);
\* True or a timeout, the operation goes on; the predicate may raise
T_Ec2Wait ==
    /\ tpc = "ec2_wait"
    /\ \/ tpc' = "routes" /\ UNCHANGED texit
       \/ Abort("error")
    /\ UNCHANGED <<op, purge, need_nat_delete, elapsed, spinner_prompt,
                   spinner_on, tlog>>
    /\ UNCHANGED <<depsVars, treeVars, spinVars, buildVars, opVars>>

\* lines 429 / 454: _run_step("routes.delete_private", ...)
T_Routes ==
    /\ tpc = "routes"
    /\ \/ /\ tpc' = AfterRoutes
          /\ tlog' = Append(tlog, Event("routes_delete"))
          /\ UNCHANGED texit
       \/ Abort("error") /\ UNCHANGED tlog
    /\ UNCHANGED <<op, purge, need_nat_delete, elapsed, spinner_prompt, spinner_on>>
    /\ UNCHANGED <<depsVars, treeVars, spinVars, buildVars, opVars>>

\* _confirm_nat_delete, lines 299-309: existence check, banner, prompt mode
CF_Check ==
    /\ tpc = "confirm_check"
    /\ \E a \in NatAnswers :
        IF ~NatExists(a)
        THEN /\ tpc' = AfterConfirm
             /\ tlog' = Append(tlog, GateCheck(a))
             /\ UNCHANGED spinner_prompt
        ELSE /\ tpc' = "confirm_read"
             /\ tlog' = Append(Append(tlog, GateCheck(a)), Event("banner"))
             /\ spinner_prompt' = TRUE
    /\ UNCHANGED <<op, purge, need_nat_delete, elapsed, spinner_on, texit>>
    /\ UNCHANGED <<depsVars, treeVars, spinVars, buildVars, opVars>>

\* _confirm_nat_delete, lines 310-315: the line is read, prompt mode ends,
\* anything but y / yes raises SystemExit
CF_Read ==
    /\ tpc = "confirm_read"
    /\ \E l \in ConfirmInputs :
        /\ tlog' = Append(tlog, ConfirmEvent(l))
        /\ IF ConfirmAffirmative(l)
           THEN tpc' = AfterConfirm /\ UNCHANGED texit
           ELSE Abort("cancelled")
    /\ spinner_prompt' = FALSE
    /\ UNCHANGED <<op, purge, need_nat_delete, elapsed, spinner_on>>
    /\ UNCHANGED <<depsVars, treeVars, spinVars, buildVars, opVars>>

\* _confirm_nat_delete, lines 310-313: KeyboardInterrupt during input()
CF_Interrupt ==
    /\ tpc = "confirm_read"
    /\ spinner_prompt' = FALSE
    /\ tlog' = Append(tlog, Event("confirm_interrupted"))
    /\ Abort("interrupted")
    /\ UNCHANGED <<op, purge, need_nat_delete, elapsed, spinner_on>>
    /\ UNCHANGED <<depsVars, treeVars, spinVars, buildVars, opVars>>

\* line 457: if need_nat_delete and _nat_exists()
N_Recheck ==
    /\ tpc = "n_recheck"
    /\ IF need_nat_delete
       THEN \E a \in NatAnswers :
               tpc' = IF NatExists(a) THEN "cd_check" ELSE "vpc_step"
       ELSE tpc' = "vpc_step"
    /\ UNCHANGED <<op, purge, need_nat_delete, elapsed, spinner_prompt,
                   spinner_on, tlog, texit>>
    /\ UNCHANGED <<depsVars, treeVars, spinVars, buildVars, opVars>>

\* _nat_delete_countdown, lines 324-331: existence check, prompt mode, start.
\* The print of line 328 comes after _spinner_set_prompt(True, ...) of line
\* 327 and before the try of line 329: when it raises (KeyboardInterrupt
\* while it writes, OSError of a closed stream) no handler and no finally
\* clause of the function runs.
CD_Check ==
    /\ tpc = "cd_check"
    /\ \E a \in NatAnswers :
        IF ~NatExists(a)
        THEN /\ tpc' = "nat_step"
             /\ tlog' = Append(tlog, GateCheck(a))
             /\ UNCHANGED <<spinner_prompt, elapsed, texit>>
        ELSE \/ /\ tpc' = "countdown"
                /\ tlog' = Append(Append(tlog, GateCheck(a)), Event("cd_notice"))
                /\ spinner_prompt' = TRUE
                /\ elapsed' = 0
                /\ UNCHANGED texit
             \/ /\ tlog' = Append(Append(tlog, GateCheck(a)),
                                  Event("cd_notice_raised"))
                /\ spinner_prompt' = TRUE
                /\ Abort("interrupted")
                /\ UNCHANGED elapsed
    /\ UNCHANGED <<op, purge, need_nat_delete, spinner_on>>
    /\ UNCHANGED <<depsVars, treeVars, spinVars, buildVars, opVars>>

\* lines 339-340, 350-351, 357-358: remaining <= 0, the loop ends
CD_Expire ==
    /\ tpc = "countdown"
    /\ Remaining(CountdownTicks, elapsed) <= 0
    /\ tlog' = Append(tlog, Event("cd_expired"))
    /\ spinner_prompt' = FALSE
    /\ tpc' = "nat_step"
    /\ UNCHANGED <<op, purge, need_nat_delete, elapsed, spinner_on, texit>>
    /\ UNCHANGED <<depsVars, treeVars, spinVars, buildVars, opVars>>

\* lines 341-343: select() times out after one second, the loop goes round
CD_Tick ==
    /\ tpc = "countdown"
    /\ Remaining(CountdownTicks, elapsed) > 0
    /\ elapsed' = elapsed + 1
    /\ UNCHANGED <<op, purge, tpc, need_nat_delete, spinner_prompt, spinner_on,
                   tlog, texit>>
    /\ UNCHANGED <<depsVars, treeVars, spinVars, buildVars, opVars>>

\* lines 341-347: a line arrives on stdin, the countdown is skipped
CD_Skip ==
    /\ tpc = "countdown"
    /\ Remaining(CountdownTicks, elapsed) > 0
    /\ tlog' = Append(tlog, Event("cd_skipped"))
    /\ spinner_prompt' = FALSE
    /\ tpc' = "nat_step"
    /\ UNCHANGED <<op, purge, need_nat_delete, elapsed, spinner_on, texit>>
    /\ UNCHANGED <<depsVars, treeVars, spinVars, buildVars, opVars>>

\* lines 352-358: KeyboardInterrupt during the countdown raises SystemExit
CD_Interrupt ==
    /\ tpc = "countdown"
    /\ tlog' = Append(tlog, Event("cd_interrupted"))
    /\ spinner_prompt' = FALSE
    /\ Abort("cancelled")
    /\ UNCHANGED <<op, purge, need_nat_delete, elapsed, spinner_on>>
    /\ UNCHANGED <<depsVars, treeVars, spinVars, buildVars, opVars>>

\* lines 434 / 459: _run_step("natgw.delete", natgw.delete).  natgw.delete
\* (natgw.py 260-272) looks the NAT up again: not found, it returns; found,
\* the nat-gateway deleter is invoked through prompt_and_delete on a leaf
\* and returns; several matches or a lookup error end the operation.  A
\* provider error of the deleter passes through prompt_and_delete and is
\* caught in natgw.delete ("except Exception as e: print(f'[abort] {e}')",
\* natgw.py 268-272), which returns; _run_step then prints its [done] line
\* (line 235).
T_NatStep ==
    /\ tpc = "nat_step"
    /\ \/ /\ tlog' = Append(tlog, Event("nat_step"))
          /\ tpc' = "nat_wait"
          /\ UNCHANGED texit
       \/ /\ tlog' = Append(Append(tlog, Event("nat_step")), Event("nat_deleter"))
          /\ tpc' = "nat_wait"
          /\ UNCHANGED texit
       \/ /\ tlog' = tlog \o <<Event("nat_step"), Event("nat_deleter"),
                               Event("provider_error"), Event("step_done")>>
          /\ tpc' = "nat_wait"
          /\ UNCHANGED texit
       \/ /\ tlog' = tlog \o <<Event("nat_step"), Event("provider_error")>>
          /\ Abort("error")
    /\ UNCHANGED <<op, purge, need_nat_delete, elapsed, spinner_prompt, spinner_on>>
    /\ UNCHANGED <<depsVars, treeVars, spinVars, buildVars, opVars>>

\* lines 435 / 460-461: _spin_until("waiting: NAT gateway gone", ...)
T_NatWait ==
    /\ tpc = "nat_wait"
    /\ tpc' = AfterNatWait
    /\ UNCHANGED <<op, purge, need_nat_delete, elapsed, spinner_prompt,
                   spinner_on, tlog, texit>>
    /\ UNCHANGED <<depsVars, treeVars, spinVars, buildVars, opVars>>

\* line 464: _run_step("vpc.delete", vpc.delete).  vpc.delete (vpc.py
\* 176-184) builds the VPC's tree and hands it to prompt_and_delete; a NAT
\* gateway the subnet checker finds (subnet.py 150-160) is a node of the tree
\* and is deleted by the nat-gateway deleter; DeleteBlocked and provider
\* errors are not caught.
N_VpcStep ==
    /\ tpc = "vpc_step"
    /\ \/ /\ tlog' = Append(tlog, Event("vpc_delete"))
          /\ tpc' = "vpc_wait"
          /\ UNCHANGED texit
       \/ /\ tlog' = Append(Append(tlog, Event("nat_deleter")), Event("vpc_delete"))
          /\ tpc' = "vpc_wait"
          /\ UNCHANGED texit
       \/ Abort("error") /\ UNCHANGED tlog
    /\ UNCHANGED <<op, purge, need_nat_delete, elapsed, spinner_prompt, spinner_on>>
    /\ UNCHANGED <<depsVars, treeVars, spinVars, buildVars, opVars>>

\* lines 465-469: _spin_until("waiting: VPC gone", ...), then the purge;
\* the predicate's lookup of the VPC may raise
N_VpcWait ==
    /\ tpc = "vpc_wait"
    /\ \/ tpc' = (IF purge THEN "purge_step" ELSE "stopping") /\ UNCHANGED texit
       \/ Abort("error")
    /\ UNCHANGED <<op, purge, need_nat_delete, elapsed, spinner_prompt,
                   spinner_on, tlog>>
    /\ UNCHANGED <<depsVars, treeVars, spinVars, buildVars, opVars>>

\* line 469: _run_step("ec2nodes._purge_keypair", ...)
N_Purge ==
    /\ tpc = "purge_step"
    /\ \/ /\ tlog' = Append(tlog, Event("purge_keypair"))
          /\ tpc' = "stopping"
          /\ UNCHANGED texit
       \/ Abort("error") /\ UNCHANGED tlog
    /\ UNCHANGED <<op, purge, need_nat_delete, elapsed, spinner_prompt, spinner_on>>
    /\ UNCHANGED <<depsVars, treeVars, spinVars, buildVars, opVars>>

\* lines 436-437 / 470-471: finally: _spinner_stop_now()
T_Stop ==
    /\ tpc = "stopping"
    /\ spinner_on' = FALSE
    /\ tpc' = "done"
    /\ texit' = IF texit = "none" THEN "returned" ELSE texit
    /\ UNCHANGED <<op, purge, need_nat_delete, elapsed, spinner_prompt, tlog>>
    /\ UNCHANGED <<depsVars, treeVars, spinVars, buildVars, opVars>>

NextTier ==
    \/ T_Start
    \/ N_NeedCheck
    \/ T_Instances
    \/ T_Ec2Delete
    \/ T_Ec2Wait
    \/ T_Routes
    \/ CF_Check
    \/ CF_Read
    \/ CF_Interrupt
    \/ N_Recheck
    \/ CD_Check
    \/ CD_Expire
    \/ CD_Tick
    \/ CD_Skip
    \/ CD_Interrupt
    \/ T_NatStep
    \/ T_NatWait
    \/ N_VpcStep
    \/ N_VpcWait
    \/ N_Purge
    \/ T_Stop

(***************************************************************************)
(* full_setup.py: the progress reporter (render loop thread, foreground    *)
(* thread, stdout proxy).  One action is one atomic step of one thread: a  *)
(* critical section of _spinner_lock, one terminal write, or one access to *)
(* a shared variable made without the lock.                                *)
(***************************************************************************)
\* line 32: _SEAL_THRESHOLD_SECONDS
SEAL_THRESHOLD_SECONDS == 300

\* by how much the clock moves while the body of a step runs
TickSizes == {1, SEAL_THRESHOLD_SECONDS - 1}

LongStepStrict(d) == d > SEAL_THRESHOLD_SECONDS

\* lines 77 / 214: per_seconds >= _SEAL_THRESHOLD_SECONDS
LongStep(d) == d >= SEAL_THRESHOLD_SECONDS

LockIgnored(holder) == TRUE

\* the render loop takes the lock although the foreground holds it
LockNotExclusive(holder) == holder # "loop"

\* "with _spinner_lock:" is entered when no thread holds the lock
LockFree(holder) == holder = "none"

\* threading.Thread.is_alive() of the render loop thread
LoopAlive == rpc \notin {"off", "dead"}

\* What the terminal's current line holds after a write.  A frame is
\* "\r<frame> ..." with no newline (lines 158-161); the clearing is "\r",
\* blanks, "\r" (line 68); the filled line and the banner end with a newline
\* (lines 81, 148, 218); print() writes its text and then its newline.
TermAfter(what) ==
    CASE what = "frame" -> "frame"
      [] what = "text" -> "foreign"
      [] OTHER -> "blank"

\* Whether a frame was painted since the line was last sealed or cleared:
\* the frame of line 161 paints; the clearing (line 68), the filled line
\* (lines 81, 218) and the banner (line 148) begin with "\r" and take the
\* line over.
PaintedAfter(what, was) ==
    CASE what = "frame" -> TRUE
      [] what \in {"clear", "filled", "banner"} -> FALSE
      [] OTHER -> was

NoWrite == [who |-> "none", what |-> "none", by |-> "none", onto |-> "blank",
            d |-> 0, active |-> FALSE]
NoLoopWrite == [what |-> "none", held |-> FALSE, stopped |-> FALSE,
                task |-> 0, from |-> 0]

\* _spinner_set_prompt(True, ...) has returned and _spinner_set_prompt(False)
\* has not been called
PromptHeld == spinner_prompt /\ fpc # "prompt_off"

\* _spinner_stop_now has returned
StopReturned == fpc = "stopped" \/ fret = "stopped"

\* a write of the foreground thread to the real stream
FgWrite(what, by, d) ==
    /\ term' = TermAfter(what)
    /\ lastw' = [who |-> "fg", what |-> what, by |-> by, onto |-> term, d |-> d,
                 active |-> stdout_patched /\ LoopAlive /\ ~spinner_prompt]
    /\ painted' = PaintedAfter(what, painted)
    /\ UNCHANGED <<loopw, banners>>

\* a write of the render loop thread to the real stream
LoopWrite(what) ==
    /\ term' = TermAfter(what)
    /\ lastw' = [who |-> "loop", what |-> what, by |-> "loop", onto |-> term,
                 d |-> 0, active |-> FALSE]
    /\ loopw' = [what |-> what, held |-> PromptHeld, stopped |-> StopReturned,
                 task |-> IF what = "frame" THEN l_task ELSE 0,
                 from |-> IF what = "frame" THEN l_from ELSE 0]
    /\ painted' = PaintedAfter(what, painted)
    /\ banners' = IF what = "banner" THEN Append(banners, l_msg) ELSE banners

OthersIdle == UNCHANGED <<depsVars, treeVars, tierRest, buildVars, opVars>>
FgIdle == UNCHANGED <<fpc, fret, chunk, do_seal, per_seconds, t0, ops>>
LoopIdle == UNCHANGED <<rpc, l_per, l_from, l_task, l_prompt, l_msg>>
ClockIdle == UNCHANGED <<now, advances>>
TermIdle == UNCHANGED <<term, lastw, loopw, painted, banners>>

\* line 136: while not _spinner_stop.is_set()
L_Test ==
    /\ rpc = "test"
    /\ rpc' = IF spinner_stop THEN "final_clear" ELSE "read_a"
    /\ UNCHANGED <<l_per, l_from, l_task, l_prompt, l_msg>>
    /\ UNCHANGED <<spinner_stop, spinner_lock, current_task, task_start,
                   prompt_line_drawn, seal_pending, stdout_patched,
                   spinner_prompt, task_starts, spinner_prompt_msg>>
    /\ FgIdle /\ ClockIdle /\ TermIdle /\ OthersIdle

\* lines 137-139: the lock is taken, per is computed from _task_start
L_ReadPer ==
    /\ rpc = "read_a"
    /\ LockFree(spinner_lock)
    /\ spinner_lock' = "loop"
    /\ l_per' = now - task_start
    /\ l_from' = task_start
    /\ rpc' = "read_b"
    /\ UNCHANGED <<l_task, l_prompt, l_msg>>
    /\ UNCHANGED <<spinner_stop, current_task, task_start, prompt_line_drawn,
                   seal_pending, stdout_patched, spinner_prompt, task_starts, spinner_prompt_msg>>
    /\ FgIdle /\ ClockIdle /\ TermIdle /\ OthersIdle

\* lines 140-144: task and prompt are read, the lock is released
L_ReadTask ==
    /\ rpc = "read_b"
    /\ l_task' = current_task
    /\ l_prompt' = spinner_prompt
    /\ l_msg' = spinner_prompt_msg
    /\ spinner_lock' = "none"
    /\ rpc' = IF spinner_prompt THEN "banner_test" ELSE "undraw"
    /\ UNCHANGED <<l_per, l_from>>
    /\ UNCHANGED <<spinner_stop, current_task, task_start, prompt_line_drawn,
                   seal_pending, stdout_patched, spinner_prompt, task_starts, spinner_prompt_msg>>
    /\ FgIdle /\ ClockIdle /\ TermIdle /\ OthersIdle

\* the iteration is over (sleep, continue): the locals are dead
LoopAgain ==
    /\ rpc' = "test"
    /\ l_per' = 0 /\ l_from' = 0 /\ l_task' = 0 /\ l_prompt' = FALSE
    /\ l_msg' = 0

\* line 145: if not _prompt_line_drawn (read without the lock); lines 153-154
L_BannerTest ==
    /\ rpc = "banner_test"
    /\ IF prompt_line_drawn
       THEN LoopAgain
       ELSE rpc' = "banner" /\ UNCHANGED <<l_per, l_from, l_task, l_prompt, l_msg>>
    /\ UNCHANGED <<spinner_stop, spinner_lock, current_task, task_start,
                   prompt_line_drawn, seal_pending, stdout_patched,
                   spinner_prompt, task_starts, spinner_prompt_msg>>
    /\ FgIdle /\ ClockIdle /\ TermIdle /\ OthersIdle

\* lines 146-151: the banner of prompt mode is written
L_Banner ==
    /\ rpc = "banner"
    /\ LoopWrite("banner")
    /\ rpc' = "banner_set"
    /\ UNCHANGED <<l_per, l_from, l_task, l_prompt, l_msg>>
    /\ UNCHANGED <<spinner_stop, spinner_lock, current_task, task_start,
                   prompt_line_drawn, seal_pending, stdout_patched,
                   spinner_prompt, task_starts, spinner_prompt_msg>>
    /\ FgIdle /\ ClockIdle /\ OthersIdle

\* lines 152-154: _prompt_line_drawn = True (without the lock), sleep, continue
L_BannerSet ==
    /\ rpc = "banner_set"
    /\ prompt_line_drawn' = TRUE
    /\ LoopAgain
    /\ UNCHANGED <<spinner_stop, spinner_lock, current_task, task_start,
                   seal_pending, stdout_patched, spinner_prompt, task_starts, spinner_prompt_msg>>
    /\ FgIdle /\ ClockIdle /\ TermIdle /\ OthersIdle

\* line 156: _prompt_line_drawn = False (without the lock)
L_Undraw ==
    /\ rpc = "undraw"
    /\ prompt_line_drawn' = FALSE
    /\ rpc' = "frame"
    /\ UNCHANGED <<l_per, l_from, l_task, l_prompt, l_msg>>
    /\ UNCHANGED <<spinner_stop, spinner_lock, current_task, task_start,
                   seal_pending, stdout_patched, spinner_prompt, task_starts, spinner_prompt_msg>>
    /\ FgIdle /\ ClockIdle /\ TermIdle /\ OthersIdle

\* lines 157-164: the frame is written to the real stream
L_Frame ==
    /\ rpc = "frame"
    /\ LoopWrite("frame")
    /\ rpc' = "set_pending"
    /\ UNCHANGED <<l_per, l_from, l_task, l_prompt, l_msg>>
    /\ UNCHANGED <<spinner_stop, spinner_lock, current_task, task_start,
                   prompt_line_drawn, seal_pending, stdout_patched,
                   spinner_prompt, task_starts, spinner_prompt_msg>>
    /\ FgIdle /\ ClockIdle /\ OthersIdle

\* lines 166-170: under the lock _seal_pending = True; sleep; next turn
L_SetPending ==
    /\ rpc = "set_pending"
    /\ LockFree(spinner_lock)
    /\ seal_pending' = TRUE
    /\ LoopAgain
    /\ UNCHANGED <<spinner_stop, spinner_lock, current_task, task_start,
                   prompt_line_drawn, stdout_patched, spinner_prompt,
                   task_starts, spinner_prompt_msg>>
    /\ FgIdle /\ ClockIdle /\ TermIdle /\ OthersIdle

\* lines 172-173: the loop is left, the line is cleared, the thread ends
L_FinalClear ==
    /\ rpc = "final_clear"
    /\ LoopWrite("clear")
    /\ rpc' = "dead"
    /\ UNCHANGED <<l_per, l_from, l_task, l_prompt, l_msg>>
    /\ UNCHANGED <<spinner_stop, spinner_lock, current_task, task_start,
                   prompt_line_drawn, seal_pending, stdout_patched,
                   spinner_prompt, task_starts, spinner_prompt_msg>>
    /\ FgIdle /\ ClockIdle /\ OthersIdle

SharedIdle == UNCHANGED <<spinner_stop, spinner_lock, current_task, task_start,
                          prompt_line_drawn, seal_pending, stdout_patched,
                          spinner_prompt, task_starts, spinner_prompt_msg>>

\* _spinner_start, lines 175-188
R_Start ==
    /\ fpc = "idle"
    /\ task_start' = now
    /\ current_task' = 0
    /\ task_starts' = <<now>>
    /\ spinner_prompt_msg' = 0
    /\ spinner_prompt' = FALSE
    /\ prompt_line_drawn' = FALSE
    /\ seal_pending' = FALSE
    /\ spinner_stop' = FALSE
    /\ stdout_patched' = TRUE
    /\ rpc' = "test"
    /\ fpc' = "ready"
    /\ UNCHANGED <<spinner_lock, l_per, l_from, l_task, l_prompt, l_msg>>
    /\ UNCHANGED <<fret, chunk, do_seal, per_seconds, t0, ops>>
    /\ ClockIdle /\ TermIdle /\ OthersIdle

\* _run_step line 230 / _spin_until line 240: _spinner_set_task(desc),
\* lines 192-193: the lock is taken, _current_task = desc
R_SetTaskLabel ==
    /\ fpc = "ready"
    /\ ops < MaxOps
    /\ LockFree(spinner_lock)
    /\ spinner_lock' = "fg"
    /\ current_task' = Len(task_starts)
    /\ ops' = ops + 1
    /\ fpc' = "task_b"
    /\ UNCHANGED <<spinner_stop, task_start, prompt_line_drawn, seal_pending,
                   stdout_patched, spinner_prompt, task_starts, spinner_prompt_msg>>
    /\ UNCHANGED <<fret, chunk, do_seal, per_seconds, t0>>
    /\ LoopIdle /\ ClockIdle /\ TermIdle /\ OthersIdle

\* line 194: _task_start = time.time(), the lock is released; line 231: t0
R_SetTaskStart ==
    /\ fpc = "task_b"
    /\ task_start' = now
    /\ task_starts' = Append(task_starts, now)
    /\ spinner_lock' = "none"
    /\ t0' = now
    /\ fpc' = "fn"
    /\ UNCHANGED <<spinner_stop, current_task, prompt_line_drawn, seal_pending,
                   stdout_patched, spinner_prompt, spinner_prompt_msg>>
    /\ UNCHANGED <<fret, chunk, do_seal, per_seconds, ops>>
    /\ LoopIdle /\ ClockIdle /\ TermIdle /\ OthersIdle

\* line 232: time passes while fn runs
R_Tick ==
    /\ fpc = "fn"
    /\ advances < MaxAdvances
    /\ \E a \in TickSizes : now' = now + a
    /\ advances' = advances + 1
    /\ SharedIdle /\ FgIdle /\ LoopIdle /\ TermIdle /\ OthersIdle

\* print(...) by the program: between steps, inside the body of a step, in
\* prompt mode (line 328) or after the reporter was stopped
R_BeginPrint ==
    /\ fpc \in {"ready", "fn", "in_prompt", "stopped"}
    /\ ops < MaxOps
    /\ ops' = ops + 1
    /\ fret' = fpc
    /\ chunk' = "text"
    /\ fpc' = "pw_check"
    /\ UNCHANGED <<do_seal, per_seconds, t0>>
    /\ SharedIdle /\ LoopIdle /\ ClockIdle /\ TermIdle /\ OthersIdle

\* lines 232-233: fn returns, per_seconds = time.time() - t0
R_BodyReturn ==
    /\ fpc = "fn"
    /\ per_seconds' = now - t0
    /\ fpc' = "finish"
    /\ UNCHANGED <<fret, chunk, do_seal, t0, ops>>
    /\ SharedIdle /\ LoopIdle /\ ClockIdle /\ TermIdle /\ OthersIdle

\* line 232: fn raises, _run_step is left, the tier's finally clause is next
R_BodyRaise ==
    /\ fpc = "fn"
    /\ t0' = 0
    /\ fpc' = "finally"
    /\ UNCHANGED <<fret, chunk, do_seal, per_seconds, ops>>
    /\ SharedIdle /\ LoopIdle /\ ClockIdle /\ TermIdle /\ OthersIdle

\* _print_finish_line_if_long, lines 213-223: filled line or clearing
R_FinishLine ==
    /\ fpc = "finish"
    /\ FgWrite(IF LongStep(per_seconds) THEN "filled" ELSE "clear",
               "finish", now - t0)
    /\ fpc' = "fin_reset"
    /\ UNCHANGED <<fret, chunk, do_seal, per_seconds, t0, ops>>
    /\ SharedIdle /\ LoopIdle /\ ClockIdle /\ OthersIdle

\* lines 224-226: under the lock _seal_pending = False; line 235: print
R_FinishReset ==
    /\ fpc = "fin_reset"
    /\ LockFree(spinner_lock)
    /\ seal_pending' = FALSE
    /\ per_seconds' = 0
    /\ t0' = 0
    /\ fret' = "ready"
    /\ chunk' = "text"
    /\ fpc' = "pw_check"
    /\ UNCHANGED <<do_seal, ops>>
    /\ UNCHANGED <<spinner_stop, spinner_lock, current_task, task_start,
                   prompt_line_drawn, stdout_patched, spinner_prompt,
                   task_starts, spinner_prompt_msg>>
    /\ LoopIdle /\ ClockIdle /\ TermIdle /\ OthersIdle

\* sys.stdout.write: the real stream when the proxy is not installed;
\* _StdoutProxy.write lines 96-101: pass through when the render thread is
\* not alive or in prompt mode (both read without the lock)
R_ProxyCheck ==
    /\ fpc = "pw_check"
    /\ fpc' = IF ~stdout_patched \/ ~LoopAlive \/ spinner_prompt
              THEN "pw_write" ELSE "pw_lock"
    /\ UNCHANGED <<fret, chunk, do_seal, per_seconds, t0, ops>>
    /\ SharedIdle /\ LoopIdle /\ ClockIdle /\ TermIdle /\ OthersIdle

\* lines 105-110: under the lock, test _seal_pending and read the task's age
R_ProxyLock ==
    /\ fpc = "pw_lock"
    /\ LockFree(spinner_lock)
    /\ do_seal' = seal_pending
    /\ per_seconds' = IF seal_pending THEN now - task_start ELSE per_seconds
    /\ fpc' = IF seal_pending THEN "pw_seal" ELSE "pw_write"
    /\ UNCHANGED <<fret, chunk, t0, ops>>
    /\ SharedIdle /\ LoopIdle /\ ClockIdle /\ TermIdle /\ OthersIdle

\* lines 112-113, _seal_or_clear_current_line lines 76-86
R_ProxySeal ==
    /\ fpc = "pw_seal"
    /\ FgWrite(IF LongStep(per_seconds) THEN "filled" ELSE "clear",
               "proxy", now - task_start)
    /\ fpc' = "pw_reset"
    /\ UNCHANGED <<fret, chunk, do_seal, per_seconds, t0, ops>>
    /\ SharedIdle /\ LoopIdle /\ ClockIdle /\ OthersIdle

\* _seal_or_clear_current_line lines 87-88: under the lock _seal_pending = False
R_ProxyReset ==
    /\ fpc = "pw_reset"
    /\ LockFree(spinner_lock)
    /\ seal_pending' = FALSE
    /\ do_seal' = FALSE
    /\ per_seconds' = 0
    /\ fpc' = "pw_write"
    /\ UNCHANGED <<fret, chunk, t0, ops>>
    /\ UNCHANGED <<spinner_stop, spinner_lock, current_task, task_start,
                   prompt_line_drawn, stdout_patched, spinner_prompt,
                   task_starts, spinner_prompt_msg>>
    /\ LoopIdle /\ ClockIdle /\ TermIdle /\ OthersIdle

\* lines 97 / 101 / 115: self._real.write(s); print() writes its text, then
\* its newline in a second write
R_ProxyWrite ==
    /\ fpc = "pw_write"
    /\ IF chunk = "text"
       THEN /\ FgWrite("text", "print", 0)
            /\ chunk' = "nl"
            /\ fpc' = "pw_check"
            /\ UNCHANGED fret
       ELSE /\ FgWrite("newline", "print", 0)
            /\ chunk' = "text"
            /\ fpc' = fret
            /\ fret' = "none"
    /\ UNCHANGED <<do_seal, per_seconds, t0, ops>>
    /\ SharedIdle /\ LoopIdle /\ ClockIdle /\ OthersIdle

\* _spinner_set_prompt(True, msg), lines 197-203
R_PromptOn ==
    /\ fpc = "ready"
    /\ ops < MaxOps
    /\ LockFree(spinner_lock)
    /\ spinner_prompt' = TRUE
    /\ spinner_prompt_msg' = ops + 1
    /\ prompt_line_drawn' = FALSE
    /\ seal_pending' = FALSE
    /\ ops' = ops + 1
    /\ fpc' = "in_prompt"
    /\ UNCHANGED <<spinner_stop, spinner_lock, current_task, task_start,
                   stdout_patched, task_starts>>
    /\ UNCHANGED <<fret, chunk, do_seal, per_seconds, t0>>
    /\ LoopIdle /\ ClockIdle /\ TermIdle /\ OthersIdle

\* lines 311 / 332-349: the input or the countdown is over, the finally
\* clause calls _spinner_set_prompt(False)
R_InputDone ==
    /\ fpc = "in_prompt"
    /\ fpc' = "prompt_off"
    /\ UNCHANGED <<fret, chunk, do_seal, per_seconds, t0, ops>>
    /\ SharedIdle /\ LoopIdle /\ ClockIdle /\ TermIdle /\ OthersIdle

\* _spinner_set_prompt(False), lines 197-203
R_PromptOff ==
    /\ fpc = "prompt_off"
    /\ LockFree(spinner_lock)
    /\ spinner_prompt' = FALSE
    /\ spinner_prompt_msg' = 0
    /\ prompt_line_drawn' = FALSE
    /\ seal_pending' = FALSE
    /\ fpc' = "ready"
    /\ UNCHANGED <<spinner_stop, spinner_lock, current_task, task_start,
                   stdout_patched, task_starts>>
    /\ UNCHANGED <<fret, chunk, do_seal, per_seconds, t0, ops>>
    /\ LoopIdle /\ ClockIdle /\ TermIdle /\ OthersIdle

\* _spinner_stop_now line 206: _spinner_stop.set()
R_StopSet ==
    /\ fpc \in {"ready", "finally"}
    /\ spinner_stop' = TRUE
    /\ fpc' = "join"
    /\ UNCHANGED <<spinner_lock, current_task, task_start, prompt_line_drawn,
                   seal_pending, stdout_patched, spinner_prompt, task_starts, spinner_prompt_msg>>
    /\ UNCHANGED <<fret, chunk, do_seal, per_seconds, t0, ops>>
    /\ LoopIdle /\ ClockIdle /\ TermIdle /\ OthersIdle

\* line 208: join(timeout=2.0) returns because the thread has ended
R_Joined ==
    /\ fpc = "join"
    /\ rpc = "dead"
    /\ fpc' = "unpatch"
    /\ UNCHANGED <<fret, chunk, do_seal, per_seconds, t0, ops>>
    /\ SharedIdle /\ LoopIdle /\ ClockIdle /\ TermIdle /\ OthersIdle

\* line 208: join(timeout=2.0) returns because the two seconds have passed
\* (the thread is held up in a write to the terminal or is not scheduled);
\* the return value is not looked at
R_JoinTimeout ==
    /\ fpc = "join"
    /\ rpc # "dead"
    /\ fpc' = "unpatch"
    /\ UNCHANGED <<fret, chunk, do_seal, per_seconds, t0, ops>>
    /\ SharedIdle /\ LoopIdle /\ ClockIdle /\ TermIdle /\ OthersIdle

\* line 209, _stdout_patch_stop lines 126-129
R_Unpatch ==
    /\ fpc = "unpatch"
    /\ stdout_patched' = FALSE
    /\ fpc' = "stopped"
    /\ UNCHANGED <<spinner_stop, spinner_lock, current_task, task_start,
                   prompt_line_drawn, seal_pending, spinner_prompt, task_starts, spinner_prompt_msg>>
    /\ UNCHANGED <<fret, chunk, do_seal, per_seconds, t0, ops>>
    /\ LoopIdle /\ ClockIdle /\ TermIdle /\ OthersIdle

NextSpinner ==
    \/ L_Test
    \/ L_ReadPer
    \/ L_ReadTask
    \/ L_BannerTest
    \/ L_Banner
    \/ L_BannerSet
    \/ L_Undraw
    \/ L_Frame
    \/ L_SetPending
    \/ L_FinalClear
    \/ R_Start
    \/ R_SetTaskLabel
    \/ R_SetTaskStart
    \/ R_Tick
    \/ R_BeginPrint
    \/ R_BodyReturn
    \/ R_BodyRaise
    \/ R_FinishLine
    \/ R_FinishReset
    \/ R_ProxyCheck
    \/ R_ProxyLock
    \/ R_ProxySeal
    \/ R_ProxyReset
    \/ R_ProxyWrite
    \/ R_PromptOn
    \/ R_InputDone
    \/ R_PromptOff
    \/ R_StopSet
    \/ R_Joined
    \/ R_JoinTimeout
    \/ R_Unpatch

(***************************************************************************)
(* deps.py: build_tree.  The provider is a finite set of resources; what   *)
(* a checker reports for a resource is fixed for the time of one build.    *)
(***************************************************************************)
\* identifiers of the resources the provider holds
Resources == 1..MaxRes

\* kinds of the resources of a build
BuildKinds == {"vpc", "subnet"}

\* the sequences without repetition over a set of resources
RECURSIVE Arrangements(_)
Arrangements(S) ==
    {<<>>} \cup UNION { { <<x>> \o t : t \in Arrangements(S \ {x}) } : x \in S }

\* Reports in which the blockers of a resource are resources with a larger
\* identifier: no resource blocks itself, directly or transitively.
AcyclicReports == { f \in [Resources -> Arrangements(Resources \ {1})] :
                      \A r \in Resources : \A i \in DOMAIN f[r] : f[r][i] > r }

\* the acyclic reports in which a resource has at most one blocker
SparseReports == { f \in AcyclicReports : \A r \in Resources : Len(f[r]) <= 1 }

\* a blocker that points back: to the resource itself or to a smaller identifier
BackEdges == { e \in Resources \X Resources : e[2] <= e[1] }

\* What the checkers report.  Nothing in deps.py constrains it: next to the
\* acyclic reports stand reports with one more blocker, which points back.
Reports == AcyclicReports \cup
           { [f EXCEPT ![e[1]] = Append(f[e[1]], e[2])] :
               f \in SparseReports, e \in BackEdges }

\* The depth at which the interpreter stops a recursion (RecursionError); it
\* lies above the deepest chain the resources can form without a cycle.
RecursionLimit == MaxRes + 2

\* the Blockers a checker returns for resource r: (kind, id) pairs, in order
CheckerResult(r) == [i \in DOMAIN reports[r] |->
                       [kind |-> world_kind[reports[r][i]], id |-> reports[r][i]]]

ExpandLeaf(k, r) == <<>>

ExpandReversed(k, r) ==
    IF k \in DOMAIN CHECKERS THEN Reverse(CheckerResult(r)) ELSE <<>>

\* expand, lines 58-60: fn = _CHECKERS.get(kind); fn(rid) if fn else []
Expand(k, r) ==
    IF k \in DOMAIN CHECKERS THEN CheckerResult(r) ELSE <<>>

BFrame(n) == [node |-> n, idx |-> 0, expanded |-> FALSE]
BTop == bstack[Len(bstack)]

BuildIdle == UNCHANGED <<DELETERS, CHECKERS, PLUGINS_LOADED, sysModules,
                         initCount, regCount, lpc, loadIdx, loadRaised,
                         ensureCalls, importsInCall, lateImports,
                         delete_root, pc, stack, calls, deleted, inflight,
                         failedNode, inputsRead, ans, outcome, errKinds,
                         tierVars, spinVars, world_kind, reports, opVars>>

\* build_tree, lines 69-70: _ensure_plugins_loaded_once has returned, the
\* root Blocker is made and handed to _expand_recursive
B_Entry ==
    /\ bpc = "entry"
    /\ PLUGINS_LOADED
    /\ kind' = <<world_kind[1]>>
    /\ node_id' = <<1>>
    /\ children' = <<(<<>>)>>
    /\ bstack' = <<BFrame(1)>>
    /\ bpc' = "expanding"
    /\ UNCHANGED <<checker_calls, bout>>
    /\ BuildIdle

\* _expand_recursive line 63: node.children = expand(node.kind, node.id); the
\* Blockers are new objects made by the checker
B_Expand ==
    /\ bpc = "expanding"
    /\ ~BTop.expanded
    /\ LET n == BTop.node
           kids == Expand(kind[n], node_id[n])
           first == Len(kind)
       IN  /\ kind' = kind \o [i \in DOMAIN kids |-> kids[i].kind]
           /\ node_id' = node_id \o [i \in DOMAIN kids |-> kids[i].id]
           /\ children' = [children EXCEPT ![n] = [i \in DOMAIN kids |-> first + i]]
                              \o [i \in DOMAIN kids |-> <<>>]
           /\ checker_calls' =
                 IF kind[n] \in DOMAIN CHECKERS
                 THEN Append(checker_calls,
                             [node |-> n, kind |-> kind[n], id |-> node_id[n],
                              result |-> CheckerResult(node_id[n])])
                 ELSE checker_calls
    /\ bstack' = [bstack EXCEPT ![Len(bstack)].expanded = TRUE]
    /\ UNCHANGED <<bpc, bout>>
    /\ BuildIdle

\* line 63: the checker raises (a provider error): the build is abandoned
B_CheckerRaise ==
    /\ bpc = "expanding"
    /\ ~BTop.expanded
    /\ kind[BTop.node] \in DOMAIN CHECKERS
    /\ checker_calls' = Append(checker_calls,
                               [node |-> BTop.node, kind |-> kind[BTop.node],
                                id |-> node_id[BTop.node], result |-> <<>>])
    /\ bstack' = <<>>
    /\ bpc' = "done"
    /\ bout' = "error"
    /\ UNCHANGED <<kind, children, node_id>>
    /\ BuildIdle

\* lines 64-65: for ch in node.children: _expand_recursive(ch)
B_Descend ==
    /\ bpc = "expanding"
    /\ BTop.expanded
    /\ BTop.idx < Len(children[BTop.node])
    /\ Len(bstack) < RecursionLimit
    /\ bstack' = Append([bstack EXCEPT ![Len(bstack)].idx = BTop.idx + 1],
                        BFrame(children[BTop.node][BTop.idx + 1]))
    /\ UNCHANGED <<kind, children, node_id, bpc, checker_calls, bout>>
    /\ BuildIdle

\* line 65: the call would go below the interpreter's recursion limit; it
\* raises RecursionError, which nothing in deps.py catches
B_RecursionError ==
    /\ bpc = "expanding"
    /\ BTop.expanded
    /\ BTop.idx < Len(children[BTop.node])
    /\ Len(bstack) >= RecursionLimit
    /\ bstack' = <<>>
    /\ bpc' = "done"
    /\ bout' = "recursion_error"
    /\ UNCHANGED <<kind, children, node_id, checker_calls>>
    /\ BuildIdle

\* lines 64-65 / 71: the loop is over, _expand_recursive returns; from the
\* outermost call build_tree returns the root
B_Return ==
    /\ bpc = "expanding"
    /\ BTop.expanded
    /\ BTop.idx = Len(children[BTop.node])
    /\ bstack' = SubSeq(bstack, 1, Len(bstack) - 1)
    /\ bpc' = IF Len(bstack) = 1 THEN "done" ELSE "expanding"
    /\ bout' = IF Len(bstack) = 1 THEN "returned" ELSE bout
    /\ UNCHANGED <<kind, children, node_id, checker_calls>>
    /\ BuildIdle

NextBuild ==
    \/ B_Entry
    \/ B_Expand
    \/ B_CheckerRaise
    \/ B_Descend
    \/ B_RecursionError
    \/ B_Return

(***************************************************************************)
(* deps.py: the two public operations with the loader call they start      *)
(* with (build_tree line 68, prompt_and_delete line 110).                  *)
(***************************************************************************)
\* control stands at the call of _ensure_plugins_loaded_once
CallSite == lpc = "idle" /\ ensureCalls = 0 /\ (bpc = "entry" \/ pc = "ensure")

\* the call of _ensure_plugins_loaded_once is over
EnsureOver == lpc = "idle" /\ ensureCalls = 1

\* line 68: the loader raised; build_tree has no handler, the exception leaves it
B_LoadRaised ==
    /\ bpc = "entry"
    /\ EnsureOver
    /\ loadRaised
    /\ bpc' = "done"
    /\ bout' = "load_error"
    /\ UNCHANGED <<kind, children, node_id, bstack, checker_calls>>
    /\ BuildIdle

\* line 110: the loader returns to prompt_and_delete, or its exception leaves it
PD_EnsureReturn ==
    /\ pc = "ensure"
    /\ EnsureOver
    /\ pc' = IF loadRaised THEN "done" ELSE "entry"
    /\ outcome' = IF loadRaised THEN "load_error" ELSE outcome
    /\ UNCHANGED <<kind, children, delete_root, stack, calls, deleted, inflight,
                   failedNode, inputsRead, ans, errKinds>>
    /\ UNCHANGED <<depsVars, tierVars, spinVars, buildVars, opVars>>

NextLookups ==
    \/ CallSite /\ Ensure_AlreadyLoaded
    \/ CallSite /\ Ensure_Begin
    \/ Ensure_Skip
    \/ Ensure_Import
    \/ Ensure_ImportRaise
    \/ Ensure_LoopEnd
    \/ Ensure_Finally
    \/ EnsureOver /\ ~loadRaised /\ B_Entry
    \/ B_LoadRaised
    \/ B_Expand
    \/ B_CheckerRaise
    \/ B_Descend
    \/ B_RecursionError
    \/ B_Return
    \/ PD_EnsureReturn
    \/ PD_Entry
    \/ PD_Prompt
    \/ PD_Descend
    \/ PD_LoopEnd
    \/ PD_NoDeleter
    \/ PD_InvokeDeleter
    \/ PD_DeleterReturn
    \/ PD_DeleterRaise

(***************************************************************************)
(* deps.py: register_checker and register_deleter, called in any order.    *)
(***************************************************************************)
\* the kind that vpc.py and igw.py both register a deleter for, and another
RegKinds == {"internet-gateway", "vpc"}

\* functions handed to the decorators
RegFns == {"vpc._delete_igw", "igw._delete_igw"}

\* the rest of the program's state, which a registration does not touch
RegIdle == UNCHANGED <<PLUGINS_LOADED, sysModules, initCount, regCount, lpc,
                       loadIdx, loadRaised, ensureCalls, importsInCall,
                       lateImports, treeVars, tierVars, spinVars, buildVars,
                       waitVars, lookVars, delVars, upVars, sesVars>>

\* register_checker(kind)(fn), lines 27-31
Register_Checker ==
    /\ Len(registered) < MaxRegs
    /\ \E k \in RegKinds, fn \in RegFns :
         /\ CHECKERS' = Register(CHECKERS, k, fn)
         /\ registered' = Append(registered,
                                 [reg |-> "checker", kind |-> k, fn |-> fn])
    /\ UNCHANGED DELETERS
    /\ RegIdle

\* register_deleter(kind)(fn), lines 33-37
Register_Deleter ==
    /\ Len(registered) < MaxRegs
    /\ \E k \in RegKinds, fn \in RegFns :
         /\ DELETERS' = Register(DELETERS, k, fn)
         /\ registered' = Append(registered,
                                 [reg |-> "deleter", kind |-> k, fn |-> fn])
    /\ UNCHANGED CHECKERS
    /\ RegIdle

NextRegistry ==
    \/ Register_Checker
    \/ Register_Deleter

(***************************************************************************)
(* full_setup.py _spin_until and natgw.py _wait_nat_state, with the code    *)
(* that follows the wait in the operation that called it.  Time is counted  *)
(* in polls.                                                                *)
(***************************************************************************)
\* a down tier (waits with _spin_until), natgw.create and the nat-gateway
\* deleter (wait with _wait_nat_state)
WaitSites == {"down_tier", "natgw.create", "_delete_nat"}

\* the target argument of _wait_nat_state: natgw.py line 203, line 247
Target(site) == IF site = "natgw.create" THEN {"available", "failed"}
                ELSE {"deleted"}

\* what describe_nat_gateways answers: a state, not found, or another error
DescribeResults == {"pending", "available", "deleting", "deleted", "failed",
                    "NotFound", "ClientError"}

\* the timeout test moved one poll later
TimedOutLate(e) == e >= TimeoutPolls + 1

\* "time.time() - start >= timeout" / "elapsed >= timeout"
TimedOut(e) == e >= TimeoutPolls

\* a call of predicate() or of describe_nat_gateways and what it answered
Polled(a) == Append(w_polls, [at |-> w_elapsed, ans |-> a])

WaitIdle == UNCHANGED <<depsVars, treeVars, tierVars, spinVars, buildVars,
                        regVars, lookVars, delVars, upVars, sesVars,
                        w_site>>

\* _spin_until, lines 242-253: one turn of the loop.  The callers (lines
\* 417-465) ignore the value returned and go on to their next statement.
SpinUntil_Poll ==
    /\ w_site = "down_tier"
    /\ w_pc = "wait"
    /\ \/ /\ w_polls' = Polled("True")
          /\ w_out' = Append(w_out, "done")
          /\ w_res' = "True"
          /\ w_pc' = "next"
          /\ UNCHANGED w_elapsed
       \/ /\ TimedOut(w_elapsed)
          /\ w_polls' = Polled("False")
          /\ w_out' = Append(w_out, "warn")
          /\ w_res' = "False"
          /\ w_pc' = "next"
          /\ UNCHANGED w_elapsed
       \/ /\ ~TimedOut(w_elapsed)
          /\ w_polls' = Polled("False")
          /\ w_elapsed' = w_elapsed + 1
          /\ UNCHANGED <<w_out, w_res, w_pc>>
       \/ /\ w_polls' = Polled("ClientError")
          /\ w_res' = "ClientError"
          /\ w_pc' = "aborted"
          /\ UNCHANGED <<w_out, w_elapsed>>
    /\ UNCHANGED w_last
    /\ WaitIdle

\* _wait_nat_state, lines 63-104: one turn of the loop.  The state is asked
\* for when a poll interval has passed since the last check (line 68).
WaitNat_Poll ==
    /\ w_site \in {"natgw.create", "_delete_nat"}
    /\ w_pc = "wait"
    /\ \E r \in IF w_elapsed >= 1 THEN DescribeResults ELSE {"unasked"} :
      /\ w_polls' = IF r = "unasked" THEN w_polls ELSE Polled(r)
      /\ IF r \in Target(w_site)
         THEN /\ w_out' = Append(w_out, "wait_line")
              /\ w_res' = r
              /\ w_pc' = "returned"
              /\ w_last' = r
              /\ UNCHANGED w_elapsed
         ELSE IF r = "failed"
         THEN /\ w_out' = Append(w_out, "wait_line")
              /\ w_res' = "SystemExit: entered state=failed"
              /\ w_pc' = "raised"
              /\ w_last' = r
              /\ UNCHANGED w_elapsed
         ELSE IF r = "NotFound" /\ "deleted" \in Target(w_site)
         THEN /\ w_out' = Append(w_out, "wait_line")
              /\ w_res' = "deleted"
              /\ w_pc' = "returned"
              /\ UNCHANGED <<w_last, w_elapsed>>
         ELSE IF r = "ClientError"
         THEN /\ w_res' = "ClientError"
              /\ w_pc' = "raised"
              /\ UNCHANGED <<w_out, w_last, w_elapsed>>
         ELSE /\ w_last' = IF r \in {"unasked", "NotFound"} THEN w_last ELSE r
              /\ IF TimedOut(w_elapsed)
                 THEN /\ w_out' = Append(w_out, "wait_line")
                      /\ w_res' = "SystemExit: timeout"
                      /\ w_pc' = "raised"
                      /\ UNCHANGED w_elapsed
                 ELSE /\ w_elapsed' = w_elapsed + 1
                      /\ UNCHANGED <<w_out, w_res, w_pc>>
    /\ WaitIdle

\* natgw.create, lines 203-207: nothing catches what the wait raises
Create_AfterWait ==
    /\ w_site = "natgw.create"
    /\ w_pc \in {"returned", "raised"}
    /\ IF w_pc = "returned" /\ w_res = "available"
       THEN /\ w_out' = Append(w_out, "created")
            /\ w_pc' = "next"
            /\ UNCHANGED w_res
       ELSE /\ w_pc' = "aborted"
            /\ w_res' = IF w_pc = "returned"
                        THEN "SystemExit: entered state=failed" ELSE w_res
            /\ UNCHANGED w_out
    /\ UNCHANGED <<w_elapsed, w_last, w_polls>>
    /\ WaitIdle

\* _delete_nat, lines 246-258: "except SystemExit: pass", then the release
\* of the address
DeleteNat_AfterWait ==
    /\ w_site = "_delete_nat"
    /\ w_pc \in {"returned", "raised"}
    /\ IF w_pc = "raised" /\ w_res = "ClientError"
       THEN /\ w_pc' = "aborted"
            /\ UNCHANGED w_out
       ELSE /\ w_pc' = "next"
            /\ w_out' = Append(w_out, "release")
    /\ UNCHANGED <<w_elapsed, w_last, w_res, w_polls>>
    /\ WaitIdle

NextWaits ==
    \/ SpinUntil_Poll
    \/ WaitNat_Poll
    \/ Create_AfterWait
    \/ DeleteNat_AfterWait

(***************************************************************************)
(* The lookups of one resource by its name (tag or group name), and the    *)
(* use the caller makes of the resource found.                             *)
(***************************************************************************)
\* lookups that test "len(...) > 1" and raise SystemExit("[abort] multiple
\* ..."): vpc.py 41-42, subnet.py 64-65, igw.py 48-49, natgw.py 122-123 and
\* 141-142, routes.py 47 and 59, ec2nodes.py 48
CheckedLookups == {"vpc.find_vpc_id", "subnet._find", "igw.find_igw",
                   "natgw._find_public_subnet_id", "natgw._find_natgw",
                   "routes._find_private_subnet_id",
                   "routes._find_private_rt_id", "ec2nodes._find_subnet_id"}

\* lookups that take element 0 of the answer: routes.py 70-71 and 121-122,
\* ec2nodes.py 76-77, 133-135, 170 and 180
FirstMatchLookups == {"routes._find_main_rt_id", "routes.set_private_default",
                      "ec2nodes._ensure_sg", "ec2nodes._ensure_instance",
                      "ec2nodes._find_instance_id", "ec2nodes._get_sg_id"}

\* lookups that abort when nothing matches: routes.py 70 and 120-121
AbortWhenNone == {"routes._find_main_rt_id", "routes.set_private_default"}

LookupFns == CheckedLookups \cup FirstMatchLookups

\* the provider's answers: up to MaxMatches resources, in identifier order
Answers == { [i \in 1..n |-> i] : n \in 0..MaxMatches }

\* the function has the test "if len(r) > 1: raise SystemExit"
TestsMultiple(fn) == fn \in CheckedLookups

LookIdle == UNCHANGED <<depsVars, treeVars, tierVars, spinVars, buildVars,
                        regVars, waitVars, delVars, upVars, sesVars,
                        lk_fn, lk_found>>

\* the body of a lookup function, from the provider's answer to its return
Lookup ==
    /\ lk_pc = "call"
    /\ IF lk_found = <<>>
       THEN /\ lk_pc' = IF lk_fn \in AbortWhenNone THEN "aborted" ELSE "returned"
            /\ lk_id' = 0
       ELSE IF Len(lk_found) > 1 /\ TestsMultiple(lk_fn)
       THEN /\ lk_pc' = "aborted"
            /\ lk_id' = 0
       ELSE /\ lk_pc' = "returned"
            /\ lk_id' = lk_found[1]
    /\ LookIdle

\* the caller goes on with the resource found: it deletes, terminates,
\* starts, associates or routes to it (for instance ec2nodes.delete, lines
\* 231-240, and routes.set_private_default, lines 124-134)
UseFound ==
    /\ lk_pc = "returned"
    /\ lk_id # 0
    /\ lk_pc' = "used"
    /\ UNCHANGED lk_id
    /\ LookIdle

NextLookup ==
    \/ Lookup
    \/ UseFound

(***************************************************************************)
(* The registered deleters: the provider calls each one makes, in order,   *)
(* and what it does when the provider answers "not found".                 *)
(***************************************************************************)
Deleters == {"vpc._delete_igw", "igw._delete_igw", "vpc._delete_sg",
             "vpc._delete_vpc", "subnet._delete_subnet", "natgw._delete_nat"}

Step(c, nf) == [call |-> c, notFound |-> nf]

\* On "not found" a call's handler returns from the deleter ("return"), lets
\* it go on ("continue"), or there is no handler for it ("raise").
ProviderCalls(fn) ==
    CASE fn = "vpc._delete_igw" ->      \* vpc.py lines 81-105
           << Step("describe_internet_gateways", "return"),
              Step("detach_internet_gateway", "continue"),
              Step("delete_internet_gateway", "continue") >>
      [] fn = "igw._delete_igw" ->      \* igw.py lines 96-121
           << Step("describe_internet_gateways", "return"),
              Step("detach_internet_gateway", "continue"),
              Step("delete_internet_gateway", "raise") >>
      [] fn = "vpc._delete_sg" ->       \* vpc.py lines 108-123
           << Step("delete_security_group", "return") >>
      [] fn = "vpc._delete_vpc" ->      \* vpc.py lines 126-135
           << Step("delete_vpc", "continue") >>
      [] fn = "subnet._delete_subnet" -> \* subnet.py lines 182-187
           << Step("delete_subnet", "raise") >>
      [] fn = "natgw._delete_nat" ->    \* natgw.py lines 221-258
           << Step("describe_nat_gateways", "continue"),
              Step("delete_nat_gateway", "continue"),
              Step("describe_nat_gateways", "continue"),
              Step("release_address", "continue") >>

\* calls after which the provider no longer holds the resource
Removes(c) == c \in {"delete_internet_gateway", "delete_security_group",
                     "delete_vpc", "delete_subnet", "delete_nat_gateway"}

\* natgw.py lines 252-258: the address is released only if the first describe
\* call found the gateway and its allocation
Skipped_Call(fn, c, log) ==
    fn = "natgw._delete_nat" /\ c = "release_address" /\ log[1] # "ok"

DelIdle == UNCHANGED <<depsVars, treeVars, tierVars, spinVars, buildVars,
                       regVars, waitVars, lookVars, upVars, sesVars,
                       dl_fn>>

\* one provider call of the deleter and the handler around it
Deleter_Call ==
    /\ dl_pc = "run"
    /\ LET st == ProviderCalls(dl_fn)[dl_step]
           last == dl_step = Len(ProviderCalls(dl_fn))
       IN  \E answer \in IF Skipped_Call(dl_fn, st.call, dl_log) THEN {"skipped"}
                         ELSE IF dl_exists THEN {"ok", "OtherError"}
                         ELSE {"NotFound", "OtherError"} :
             /\ dl_log' = Append(dl_log, answer)
             /\ dl_exists' = IF answer = "ok" /\ Removes(st.call) THEN FALSE
                             ELSE dl_exists
             /\ IF answer = "OtherError" \/ (answer = "NotFound" /\ st.notFound = "raise")
                THEN dl_pc' = "raised" /\ UNCHANGED dl_step
                ELSE IF last \/ (answer = "NotFound" /\ st.notFound = "return")
                THEN dl_pc' = "returned" /\ UNCHANGED dl_step
                ELSE dl_step' = dl_step + 1 /\ UNCHANGED dl_pc
    /\ UNCHANGED dl_runs
    /\ DelIdle

\* something else removes the resource while the deleter runs
Deleter_Vanish ==
    /\ dl_pc = "run"
    /\ dl_exists
    /\ dl_exists' = FALSE
    /\ UNCHANGED <<dl_step, dl_pc, dl_log, dl_runs>>
    /\ DelIdle

\* the deleter is invoked again on the same identifier
Deleter_Again ==
    /\ dl_pc = "returned"
    /\ dl_runs < MaxRuns
    /\ dl_runs' = dl_runs + 1
    /\ dl_pc' = "run"
    /\ dl_step' = 1
    /\ dl_log' = <<>>
    /\ UNCHANGED dl_exists
    /\ DelIdle

NextDeleters ==
    \/ Deleter_Call
    \/ Deleter_Vanish
    \/ Deleter_Again

(***************************************************************************)
(* Initial values of the parts a specification leaves alone.               *)
(***************************************************************************)
IdleLoader ==
    /\ sysModules = ModuleSet
    /\ initCount = [m \in ModuleSet |-> 1]
    /\ regCount = [m \in ModuleSet |-> 1]
    /\ lpc = "idle"
    /\ loadIdx = 0
    /\ loadRaised = FALSE
    /\ ensureCalls = 0
    /\ importsInCall = 0
    /\ lateImports = 0

IdleTree ==
    /\ kind = <<"vpc">>
    /\ children = <<(<<>>)>>
    /\ delete_root = TRUE
    /\ pc = "idle"
    /\ stack = <<>>
    /\ calls = <<>>
    /\ deleted = {}
    /\ inflight = 0
    /\ failedNode = 0
    /\ inputsRead = 0
    /\ ans = <<>>
    /\ outcome = "none"
    /\ errKinds = {}

IdleTier ==
    /\ op = "none"
    /\ purge = FALSE
    /\ tpc = "idle"
    /\ need_nat_delete = FALSE
    /\ elapsed = 0
    /\ spinner_prompt = FALSE
    /\ spinner_on = FALSE
    /\ tlog = <<>>
    /\ texit = "none"

IdleSpinner ==
    /\ spinner_stop = FALSE
    /\ spinner_lock = "none"
    /\ current_task = 0
    /\ task_start = 0
    /\ prompt_line_drawn = FALSE
    /\ seal_pending = FALSE
    /\ stdout_patched = FALSE
    /\ rpc = "off"
    /\ l_per = 0
    /\ l_from = 0
    /\ l_task = 0
    /\ l_prompt = FALSE
    /\ fpc = "idle"
    /\ fret = "none"
    /\ chunk = "text"
    /\ do_seal = FALSE
    /\ per_seconds = 0
    /\ t0 = 0
    /\ now = 0
    /\ ops = 0
    /\ advances = 0
    /\ term = "blank"
    /\ lastw = NoWrite
    /\ loopw = NoLoopWrite
    /\ task_starts = <<0>>
    /\ spinner_prompt_msg = 0
    /\ l_msg = 0
    /\ painted = FALSE
    /\ banners = <<>>

\* ------------------------------------------------------------------------
\* The up tier operations (full_setup.py 362-399) against a provider that
\* holds a set of resources.  A step is a function from the provider's
\* state and the calls issued so far to the same after the step.
\* ------------------------------------------------------------------------
TierSteps == <<"vpc.create", "subnet.create", "igw.create_attach">>
RoutingSteps == <<"natgw.create", "routes.create_private",
                  "routes.set_private_default", "routes.set_public_main">>

\* lines 362-399: the steps of each operation, in order
Steps(o) ==
    CASE o = "up_network" -> TierSteps
      [] o = "up_routing" -> TierSteps \o RoutingSteps
      [] o = "up_ec2" -> TierSteps \o RoutingSteps \o <<"ec2nodes.create">>

UpOps == {"up_network", "up_routing", "up_ec2"}

\* the resources in the order a full up_ec2 creates them
CreationOrder ==
    <<"vpc", "subnet_inside", "subnet_outside", "igw", "igw_attachment", "eip",
      "nat", "rt_private", "association_private", "route_private",
      "route_main", "sg", "sg_ingress", "sg_egress", "keypair",
      "instance_public", "instance_private">>

\* what an earlier run that stopped after its n-th creation left behind
Left(n) == { CreationOrder[i] : i \in 1..n }

\* how the wait for the new NAT gateway ends (natgw.py 203-205)
NatFinals == {"available", "failed", "timeout"}

\* a call the provider carries out, adding the resources res
Issue(s, call, res) ==
    [s EXCEPT !.prov = @ \cup res,
              !.calls = Append(@, [call |-> call, ok |-> TRUE])]

\* a call the provider rejects because what it creates exists
Refuse(s, call) ==
    [s EXCEPT !.calls = Append(@, [call |-> call, ok |-> FALSE])]

\* raise SystemExit
Exit(s) == [s EXCEPT !.abort = TRUE]

\* the same without the lookup of lines 140-143
Vpc_createAlways(s) ==
    Issue(Issue(Issue(s, "create_vpc", {"vpc"}),
                "modify_vpc_attribute", {}),
          "modify_vpc_attribute", {})

\* vpc.py 138-162
Vpc_create(s) ==
    IF "vpc" \in s.prov
    THEN s
    ELSE Issue(Issue(Issue(s, "create_vpc", {"vpc"}),
                     "modify_vpc_attribute", {}),
               "modify_vpc_attribute", {})

\* subnet.py 68-100, which /= "both"
Subnet_create_one(s, which) ==
    LET s1 == Vpc_create(s)
    IN  IF which \in s1.prov
        THEN s1
        ELSE Issue(Issue(s1, "create_subnet", {which}),
                   "modify_subnet_attribute", {})

\* subnet.py 68-76, which = "both": ORDER is ("inside", "outside")
Subnet_create(s) ==
    Subnet_create_one(Subnet_create_one(Vpc_create(s), "subnet_inside"),
                      "subnet_outside")

\* igw.py 55-66
Igw_create(s) ==
    IF "igw" \in s.prov
    THEN s
    ELSE Issue(s, "create_internet_gateway", {"igw"})

\* igw.py 68-83 (the gateway is attached to this VPC or to none)
Igw_attach(s) ==
    LET s1 == Vpc_create(s)
        s2 == IF "igw" \in s1.prov THEN s1 ELSE Igw_create(s1)
    IN  IF "igw_attachment" \in s2.prov
        THEN s2
        ELSE Issue(s2, "attach_internet_gateway", {"igw_attachment"})

\* igw.py 85-87
Igw_create_attach(s) == Igw_attach(Igw_create(s))

\* natgw.py 175-207; _find_eip_allocation (148-164) answers an address only
\* while no NAT gateway uses it
Natgw_create(s, final) ==
    LET s1 == Vpc_create(s)
        s2 == IF "eip" \in s1.prov
              THEN s1
              ELSE Issue(Issue(s1, "allocate_address", {"eip"}),
                         "create_tags", {})
        s3 == Issue(Issue(s2, "create_nat_gateway", {}), "create_tags", {})
    IN  IF "subnet_outside" \notin s1.prov
        THEN Exit(s1)
        ELSE IF "nat" \in s1.prov
        THEN s1
        ELSE IF final = "available"
        THEN [s3 EXCEPT !.prov = @ \cup {"nat"}]
        ELSE Exit(s3)

\* routes.py 73-84
Routes_create_private(s) ==
    LET s1 == Vpc_create(s)
    IN  IF "rt_private" \in s1.prov
        THEN s1
        ELSE Issue(Issue(s1, "create_route_table", {"rt_private"}),
                   "create_tags", {})

\* routes.py 86-104
Ensure_subnet_association(s) ==
    IF "association_private" \in s.prov
    THEN s
    ELSE Issue(s, "associate_route_table", {"association_private"})

\* routes.py 123-134 and 144-155: "try create, fall back to replace"
Upsert_route(s, route) ==
    IF route \in s.prov
    THEN Issue(Refuse(s, "create_route"), "replace_route", {})
    ELSE Issue(s, "create_route", {route})

\* routes.py 106-134
Routes_set_private_default(s) ==
    LET s1 == IF "rt_private" \in s.prov THEN s ELSE Routes_create_private(s)
        s2 == Ensure_subnet_association(s1)
    IN  IF "subnet_inside" \notin s1.prov
        THEN Exit(s1)
        ELSE IF "nat" \notin s2.prov
        THEN Exit(s2)
        ELSE Upsert_route(s2, "route_private")

\* routes.py 137-155
Routes_set_public_main(s) ==
    IF "vpc" \notin s.prov \/ {"igw", "igw_attachment"} \ s.prov /= {}
    THEN Exit(s)
    ELSE Upsert_route(s, "route_main")

\* ec2nodes.py 69-108: the rules are authorised on every call, a
\* Duplicate answer is passed over
Ensure_sg(s) ==
    LET s1 == IF "sg" \in s.prov
              THEN s
              ELSE Issue(s, "create_security_group", {"sg"})
        s2 == IF "sg_ingress" \in s1.prov
              THEN Refuse(s1, "authorize_security_group_ingress")
              ELSE Issue(s1, "authorize_security_group_ingress", {"sg_ingress"})
    IN  IF "sg_egress" \in s2.prov
        THEN Refuse(s2, "authorize_security_group_egress")
        ELSE Issue(s2, "authorize_security_group_egress", {"sg_egress"})

\* ec2nodes.py 51-67
Ensure_keypair(s) ==
    IF "keypair" \in s.prov
    THEN s
    ELSE Issue(s, "create_key_pair", {"keypair"})

\* ec2nodes.py 125-162, the instance running when it exists
Ensure_instance(s, name) ==
    IF name \in s.prov
    THEN s
    ELSE Issue(s, "run_instances", {name})

\* ec2nodes.py 201-210, which = "both"
Ec2nodes_create(s) ==
    LET s1 == Ensure_keypair(Ensure_sg(Vpc_create(s)))
    IN  IF {"subnet_outside", "subnet_inside"} \ s1.prov /= {}
        THEN Exit(s1)
        ELSE Ensure_instance(Ensure_instance(s1, "instance_public"),
                             "instance_private")

UpIdle == UNCHANGED <<depsVars, treeVars, tierVars, spinVars, buildVars,
                      regVars, waitVars, lookVars, delVars, sesVars, up_op, up_run,
                      prov_first>>

\* the provider and the calls of this run, as a step finds them
Before == [prov |-> prov, calls |-> up_calls, abort |-> FALSE]

AtStep(name) ==
    /\ up_pc = "run"
    /\ up_step <= Len(Steps(up_op))
    /\ Steps(up_op)[up_step] = name

\* _run_step, lines 228-236: the step returns and the next one follows, or
\* its SystemExit ends the operation
After(s) ==
    /\ prov' = s.prov
    /\ up_calls' = s.calls
    /\ up_pc' = IF s.abort THEN "aborted" ELSE "run"
    /\ up_step' = IF s.abort THEN up_step ELSE up_step + 1
    /\ UpIdle

Run_vpc_create == AtStep("vpc.create") /\ After(Vpc_create(Before))

Run_subnet_create == AtStep("subnet.create") /\ After(Subnet_create(Before))

Run_igw_create_attach ==
    AtStep("igw.create_attach") /\ After(Igw_create_attach(Before))

Run_natgw_create ==
    /\ AtStep("natgw.create")
    /\ \E final \in NatFinals : After(Natgw_create(Before, final))

Run_routes_create_private ==
    AtStep("routes.create_private") /\ After(Routes_create_private(Before))

Run_routes_set_private_default ==
    /\ AtStep("routes.set_private_default")
    /\ After(Routes_set_private_default(Before))

Run_routes_set_public_main ==
    AtStep("routes.set_public_main") /\ After(Routes_set_public_main(Before))

Run_ec2nodes_create == AtStep("ec2nodes.create") /\ After(Ec2nodes_create(Before))

\* the operation returns after its last step
Up_Return ==
    /\ up_pc = "run"
    /\ up_step = Len(Steps(up_op)) + 1
    /\ up_pc' = "done"
    /\ prov_first' = IF up_run = 1 THEN prov ELSE prov_first
    /\ UNCHANGED <<depsVars, treeVars, tierVars, spinVars, buildVars,
                   regVars, waitVars, lookVars, delVars, sesVars, up_op, up_run,
                   up_step, prov, up_calls>>

\* the same operation is run again against what the run before left
Up_Again ==
    /\ up_pc = "done"
    /\ up_run < MaxUpRuns
    /\ up_run' = up_run + 1
    /\ up_step' = 1
    /\ up_pc' = "run"
    /\ up_calls' = <<>>
    /\ UNCHANGED <<depsVars, treeVars, tierVars, spinVars, buildVars,
                   regVars, waitVars, lookVars, delVars, sesVars, up_op, prov,
                   prov_first>>

NextUp ==
    \/ Run_vpc_create
    \/ Run_subnet_create
    \/ Run_igw_create_attach
    \/ Run_natgw_create
    \/ Run_routes_create_private
    \/ Run_routes_set_private_default
    \/ Run_routes_set_public_main
    \/ Run_ec2nodes_create
    \/ Up_Return
    \/ Up_Again

IdleUp ==
    /\ up_op = "none"
    /\ up_run = 0
    /\ up_step = 0
    /\ up_pc = "idle"
    /\ prov = {}
    /\ up_calls = <<>>
    /\ prov_first = {}

\* ------------------------------------------------------------------------
\* The reporter over several tier operations of one process (full_setup.py
\* 175-188, 205-209, 133-173).  One turn of the render loop is one step.
\* ------------------------------------------------------------------------
SesIdle == UNCHANGED <<depsVars, treeVars, tierVars, spinVars, buildVars,
                       regVars, waitVars, lookVars, delVars, upVars>>

\* threading.Thread.is_alive()
Alive(i) == threads[i] # "dead"

\* _spinner_start, lines 175-188: the event is cleared, a new thread is made
\* and started; _spinner_thread is that thread
S_Start ==
    /\ ses_pc = "idle"
    /\ ses_ops < MaxTierOps
    /\ stop_event' = FALSE
    /\ threads' = Append(threads, "test")
    /\ ses_ops' = ses_ops + 1
    /\ ses_pc' = "steps"
    /\ SesIdle

\* the steps of the tier operation are over; _spinner_stop_now line 206
S_StopSet ==
    /\ ses_pc = "steps"
    /\ stop_event' = TRUE
    /\ ses_pc' = "join"
    /\ UNCHANGED <<threads, ses_ops>>
    /\ SesIdle

\* line 208: _spinner_thread.join(timeout=2.0) returns, the thread has ended
S_Joined ==
    /\ ses_pc = "join"
    /\ ~Alive(Len(threads))
    /\ ses_pc' = "unpatch"
    /\ UNCHANGED <<threads, stop_event, ses_ops>>
    /\ SesIdle

\* line 208: the two seconds have passed with the thread alive (held up in
\* a write to the terminal, or not scheduled); the result is not looked at
S_JoinTimeout ==
    /\ ses_pc = "join"
    /\ Alive(Len(threads))
    /\ ses_pc' = "unpatch"
    /\ UNCHANGED <<threads, stop_event, ses_ops>>
    /\ SesIdle

\* line 209: _stdout_patch_stop(); the tier operation returns
S_Unpatch ==
    /\ ses_pc = "unpatch"
    /\ ses_pc' = "idle"
    /\ UNCHANGED <<threads, stop_event, ses_ops>>
    /\ SesIdle

\* _spinner_loop line 136: while not _spinner_stop.is_set()
Th_Test(i) ==
    /\ threads[i] = "test"
    /\ threads' = [threads EXCEPT ![i] = IF stop_event THEN "clear" ELSE "frame"]
    /\ UNCHANGED <<stop_event, ses_pc, ses_ops>>
    /\ SesIdle

\* lines 137-170: one turn of the loop writes its frame (or banner), sleeps
Th_Frame(i) ==
    /\ threads[i] = "frame"
    /\ threads' = [threads EXCEPT ![i] = "test"]
    /\ UNCHANGED <<stop_event, ses_pc, ses_ops>>
    /\ SesIdle

\* lines 172-173: the line is cleared, the thread ends
Th_Clear(i) ==
    /\ threads[i] = "clear"
    /\ threads' = [threads EXCEPT ![i] = "dead"]
    /\ UNCHANGED <<stop_event, ses_pc, ses_ops>>
    /\ SesIdle

NextSessions ==
    \/ S_Start
    \/ S_StopSet
    \/ S_Joined
    \/ S_JoinTimeout
    \/ S_Unpatch
    \/ \E i \in DOMAIN threads : Th_Test(i)
    \/ \E i \in DOMAIN threads : Th_Frame(i)
    \/ \E i \in DOMAIN threads : Th_Clear(i)

IdleSes ==
    /\ threads = <<>>
    /\ stop_event = FALSE
    /\ ses_pc = "idle"
    /\ ses_ops = 0

IdleOps ==
    /\ registered = <<>>
    /\ IdleUp
    /\ IdleSes

IdleDel ==
    /\ dl_fn = "none"
    /\ dl_step = 0
    /\ dl_pc = "idle"
    /\ dl_log = <<>>
    /\ dl_exists = FALSE
    /\ dl_runs = 0

IdleLook ==
    /\ lk_fn = "none"
    /\ lk_found = <<>>
    /\ lk_pc = "idle"
    /\ lk_id = 0

IdleWait ==
    /\ w_site = "none"
    /\ w_pc = "idle"
    /\ w_elapsed = 0
    /\ w_last = "..."
    /\ w_res = "none"
    /\ w_out = <<>>
    /\ w_polls = <<>>

IdleBuild ==
    /\ world_kind = <<"vpc">>
    /\ reports = <<(<<>>)>>
    /\ node_id = <<1>>
    /\ bstack = <<>>
    /\ bpc = "idle"
    /\ checker_calls = <<>>
    /\ bout = "none"

\* A tree handed to prompt_and_delete, under any state of the registry.
InitTeardown ==
    /\ children \in Trees
    /\ kind \in [DOMAIN children -> Kinds]
    /\ \E K \in SUBSET Kinds : DELETERS = [k \in K |-> k]
    /\ CHECKERS = [k \in {} |-> k]
    /\ PLUGINS_LOADED = TRUE
    /\ delete_root \in BOOLEAN
    /\ pc = "entry"
    /\ stack = <<>>
    /\ calls = <<>>
    /\ deleted = {}
    /\ inflight = 0
    /\ failedNode = 0
    /\ inputsRead = 0
    /\ ans = <<>>
    /\ outcome = "none"
    /\ errKinds = {}
    /\ IdleLoader
    /\ IdleTier
    /\ IdleSpinner
    /\ IdleBuild
    /\ IdleOps
    /\ IdleWait
    /\ IdleLook
    /\ IdleDel

SpecTeardown == InitTeardown /\ [][NextTeardown]_vars

\* The modules that can run as the program (python -m infra_cc.<module>) and
\* reach the loader; "deps" stands for a caller that imported deps alone.
EntryPoints == {"deps", "ec2nodes", "full_setup", "igw", "natgw", "routes",
                "subnet", "vpc"}

\* The process before the first call of the loader: the modules imported by
\* the program's import statements have been initialized once.
FreshProcess ==
    /\ \E e \in EntryPoints :
         LET pre == Closure({"deps"} \cup Range(Imports(e)))
             order == ImportOrderList(Imports(e), {"deps"})
         IN  /\ sysModules = pre
             /\ initCount = [m \in ModuleSet |-> IF m \in pre THEN 1 ELSE 0]
             /\ regCount = [m \in ModuleSet |->
                              IF m \in pre /\ Registrations(m) # <<>> THEN 1 ELSE 0]
             /\ DELETERS = ApplyModules([k \in {} |-> k], "deleter", order)
             /\ CHECKERS = ApplyModules([k \in {} |-> k], "checker", order)
    /\ PLUGINS_LOADED = FALSE
    /\ lpc = "idle"
    /\ loadIdx = 0
    /\ loadRaised = FALSE
    /\ ensureCalls = 0
    /\ importsInCall = 0
    /\ lateImports = 0

InitPlugins ==
    /\ FreshProcess
    /\ IdleTree
    /\ IdleTier
    /\ IdleSpinner
    /\ IdleBuild
    /\ IdleOps
    /\ IdleWait
    /\ IdleLook
    /\ IdleDel

SpecPlugins == InitPlugins /\ [][NextPlugins]_vars

\* A process about to run one tier operation, the plugins loaded.
InitTier ==
    /\ IdleTier
    /\ IdleTree
    /\ IdleLoader
    /\ IdleSpinner
    /\ IdleBuild
    /\ PLUGINS_LOADED = TRUE
    /\ DELETERS = ApplyModules([k \in {} |-> k], "deleter", PkgModules)
    /\ CHECKERS = ApplyModules([k \in {} |-> k], "checker", PkgModules)
    /\ IdleOps
    /\ IdleWait
    /\ IdleLook
    /\ IdleDel

SpecTier == InitTier /\ [][NextTier]_vars

\* A process about to start the reporter (the first statement of a tier
\* operation), the clock at 0.
InitSpinner == InitTier

SpecSpinner == InitSpinner /\ [][NextSpinner]_vars

\* the steps of the render loop thread
NextLoop ==
    \/ L_Test
    \/ L_ReadPer
    \/ L_ReadTask
    \/ L_BannerTest
    \/ L_Banner
    \/ L_BannerSet
    \/ L_Undraw
    \/ L_Frame
    \/ L_SetPending
    \/ L_FinalClear

\* The render loop is a thread of its own (line 187): while it has a step to
\* take it is scheduled.  The foreground may wait for its input for ever.
SpecSpinnerFair == SpecSpinner /\ WF_vars(NextLoop)

\* build_tree is called for resource 1, under any state of the checker
\* registry and any acyclic report of the checkers.
InitBuild ==
    /\ world_kind \in [Resources -> BuildKinds]
    /\ reports \in Reports
    /\ \E K \in SUBSET BuildKinds : CHECKERS = [k \in K |-> k]
    /\ DELETERS = [k \in {} |-> k]
    /\ PLUGINS_LOADED = TRUE
    /\ kind = <<>>
    /\ children = <<>>
    /\ node_id = <<>>
    /\ bstack = <<>>
    /\ bpc = "entry"
    /\ checker_calls = <<>>
    /\ bout = "none"
    /\ delete_root = TRUE
    /\ pc = "idle"
    /\ stack = <<>>
    /\ calls = <<>>
    /\ deleted = {}
    /\ inflight = 0
    /\ failedNode = 0
    /\ inputsRead = 0
    /\ ans = <<>>
    /\ outcome = "none"
    /\ errKinds = {}
    /\ IdleLoader
    /\ IdleTier
    /\ IdleSpinner
    /\ IdleOps
    /\ IdleWait
    /\ IdleLook
    /\ IdleDel

SpecBuild == InitBuild /\ [][NextBuild]_vars

\* deps.py has just been imported: both registries are empty (lines 23-24)
InitRegistry ==
    /\ DELETERS = [k \in {} |-> k]
    /\ CHECKERS = [k \in {} |-> k]
    /\ PLUGINS_LOADED = FALSE
    /\ IdleLoader
    /\ IdleTree
    /\ IdleTier
    /\ IdleSpinner
    /\ IdleBuild
    /\ IdleOps
    /\ IdleWait
    /\ IdleLook
    /\ IdleDel

SpecRegistry == InitRegistry /\ [][NextRegistry]_vars

\* One of the operations has just begun to wait.
InitWaits ==
    /\ w_site \in WaitSites
    /\ w_pc = "wait"
    /\ w_elapsed = 0
    /\ w_last = "..."
    /\ w_res = "none"
    /\ w_out = <<>>
    /\ w_polls = <<>>
    /\ DELETERS = [k \in {} |-> k]
    /\ CHECKERS = [k \in {} |-> k]
    /\ PLUGINS_LOADED = TRUE
    /\ IdleLoader
    /\ IdleTree
    /\ IdleTier
    /\ IdleSpinner
    /\ IdleBuild
    /\ IdleOps
    /\ IdleLook
    /\ IdleDel

SpecWaits == InitWaits /\ [][NextWaits]_vars

\* The thread that waits keeps running: time.sleep returns and the next turn
\* of the loop is taken.
SpecWaitsFair == SpecWaits /\ WF_vars(NextWaits)

\* A lookup is called and the provider has answered.
InitLookup ==
    /\ lk_fn \in LookupFns
    /\ lk_found \in Answers
    /\ lk_pc = "call"
    /\ lk_id = 0
    /\ DELETERS = [k \in {} |-> k]
    /\ CHECKERS = [k \in {} |-> k]
    /\ PLUGINS_LOADED = TRUE
    /\ IdleLoader
    /\ IdleTree
    /\ IdleTier
    /\ IdleSpinner
    /\ IdleBuild
    /\ IdleOps
    /\ IdleWait
    /\ IdleDel

SpecLookup == InitLookup /\ [][NextLookup]_vars

\* A deleter is invoked on an identifier the provider holds or does not hold.
InitDeleters ==
    /\ dl_fn \in Deleters
    /\ dl_exists \in BOOLEAN
    /\ dl_step = 1
    /\ dl_pc = "run"
    /\ dl_log = <<>>
    /\ dl_runs = 1
    /\ DELETERS = [k \in {} |-> k]
    /\ CHECKERS = [k \in {} |-> k]
    /\ PLUGINS_LOADED = TRUE
    /\ IdleLoader
    /\ IdleTree
    /\ IdleTier
    /\ IdleSpinner
    /\ IdleBuild
    /\ IdleOps
    /\ IdleWait
    /\ IdleLook

SpecDeleters == InitDeleters /\ [][NextDeleters]_vars

\* The first run of an up tier operation, against what an earlier run left.
InitUp ==
    /\ up_op \in UpOps
    /\ up_run = 1
    /\ up_step = 1
    /\ up_pc = "run"
    /\ prov \in { Left(n) : n \in 0..Len(CreationOrder) }
    /\ up_calls = <<>>
    /\ prov_first = {}
    /\ registered = <<>>
    /\ DELETERS = [k \in {} |-> k]
    /\ CHECKERS = [k \in {} |-> k]
    /\ PLUGINS_LOADED = TRUE
    /\ IdleLoader
    /\ IdleTree
    /\ IdleTier
    /\ IdleSpinner
    /\ IdleBuild
    /\ IdleWait
    /\ IdleLook
    /\ IdleDel
    /\ IdleSes

SpecUp == InitUp /\ [][NextUp]_vars

\* A process that has run no tier operation yet.
InitSessions ==
    /\ DELETERS = [k \in {} |-> k]
    /\ CHECKERS = [k \in {} |-> k]
    /\ PLUGINS_LOADED = FALSE
    /\ IdleLoader
    /\ IdleTree
    /\ IdleTier
    /\ IdleSpinner
    /\ IdleBuild
    /\ IdleWait
    /\ IdleLook
    /\ IdleDel
    /\ IdleOps

SpecSessions == InitSessions /\ [][NextSessions]_vars

\* A process that called the loader before: the flag is set, under any state
\* of the registry.
LoadedProcess ==
    /\ \E K \in SUBSET BuildKinds : /\ DELETERS = [k \in K |-> k]
                                     /\ CHECKERS = [k \in K |-> k]
    /\ PLUGINS_LOADED = TRUE
    /\ IdleLoader

\* A call of build_tree on resources of one kind that report at most one
\* blocker each, or of prompt_and_delete on a tree of subnets (which get a
\* deleter) and network interfaces (which get none), in a fresh process or in
\* one that called the loader before.
InitLookups ==
    /\ FreshProcess \/ LoadedProcess
    /\ \/ /\ \E k \in BuildKinds : world_kind = [r \in Resources |-> k]
          /\ reports \in { f \in Reports : \A r \in Resources : Len(f[r]) <= 1 }
          /\ kind = <<>>
          /\ children = <<>>
          /\ node_id = <<>>
          /\ bpc = "entry"
          /\ delete_root = TRUE
          /\ pc = "idle"
       \/ /\ world_kind = <<"vpc">>
          /\ reports = <<(<<>>)>>
          /\ children \in Trees
          /\ kind \in [DOMAIN children -> {"subnet", "eni"}]
          /\ node_id = [n \in DOMAIN children |-> n]
          /\ bpc = "idle"
          /\ delete_root \in BOOLEAN
          /\ pc = "ensure"
    /\ bstack = <<>>
    /\ checker_calls = <<>>
    /\ bout = "none"
    /\ stack = <<>>
    /\ calls = <<>>
    /\ deleted = {}
    /\ inflight = 0
    /\ failedNode = 0
    /\ inputsRead = 0
    /\ ans = <<>>
    /\ outcome = "none"
    /\ errKinds = {}
    /\ IdleTier
    /\ IdleSpinner
    /\ IdleOps
    /\ IdleWait
    /\ IdleLook
    /\ IdleDel

SpecLookups == InitLookups /\ [][NextLookups]_vars

\* build_tree is straight-line code on one thread: while a step is possible,
\* the interpreter takes it
SpecBuildFair == SpecBuild /\ WF_vars(NextBuild)

(***************************************************************************)
(* Properties of prompt_and_delete (checked under SpecTeardown).           *)
(***************************************************************************)
\* Reference definitions, independent of the walk's stack.
RECURSIVE Postorder(_)
RECURSIVE PostorderKids(_, _)
Postorder(n) == PostorderKids(n, 1) \o <<n>>
PostorderKids(n, i) ==
    IF i > Len(children[n]) THEN <<>>
    ELSE Postorder(children[n][i]) \o PostorderKids(n, i + 1)

RECURSIVE Descendants(_)
Descendants(n) ==
    LET kids == { children[n][i] : i \in 1..Len(children[n]) }
    IN  kids \cup UNION { Descendants(c) : c \in kids }

CallNodes == [i \in 1..Len(calls) |-> calls[i].id]
CalledSet == { calls[i].id : i \in 1..Len(calls) }
IsPrefix(s, t) == Len(s) <= Len(t) /\ SubSeq(t, 1, Len(s)) = s
ExpectedCalls == IF delete_root THEN Postorder(Root) ELSE PostorderKids(Root, 1)
YesLines == { <<"y">>, <<" ", "Y", "E", "S", " ">> }
Accepted == inputsRead = 1 /\ ans \in YesLines
Declined == inputsRead = 1 /\ ans \notin YesLines
AllKindsRegistered == \A n \in Nodes : Registered(kind[n])

\* C1: with delete_root = True, every kind registered and the prompt accepted,
\* a deleter is invoked for every node exactly once (never twice at any time,
\* and once for each node when the call has ended without a deleter raising),
\* each on the node's own kind, and every descendant of a node is called
\* strictly before the node.
C1_EveryNodeOnceDescendantsFirst ==
    (delete_root /\ AllKindsRegistered) =>
        /\ \A i, j \in 1..Len(calls) : i # j => calls[i].id # calls[j].id
        /\ \A i \in 1..Len(calls) :
              /\ calls[i].kind = kind[calls[i].id]
              /\ \A d \in Descendants(calls[i].id) :
                    \E j \in 1..(i - 1) : calls[j].id = d
        /\ (pc = "done" /\ ~Declined /\ failedNode = 0) =>
              (outcome = "ok" /\ CalledSet = Nodes)

C1_Witness ==
    /\ pc = "done" /\ outcome = "ok" /\ delete_root /\ AllKindsRegistered
    /\ Accepted
    /\ Len(calls) = 3
    /\ \E n \in Nodes \ {Root} : children[n] # <<>>

\* C2: if a kind present in the tree (the root node not counted when
\* delete_root is false) has no registered deleter, no deleter is invoked and
\* the call fails naming exactly the kinds that lack a deleter.
C2_MissingDeleterAllOrNothing ==
    LET counted == IF delete_root THEN Nodes ELSE Nodes \ {Root}
        lacking == { kind[n] : n \in counted } \ DOMAIN DELETERS
    IN  lacking # {} =>
            /\ calls = <<>>
            /\ inputsRead = 0
            /\ pc = "done" => (outcome = "missing" /\ errKinds = lacking)

\* C5: for a root without children, delete_root = True invokes exactly one
\* deleter (the root kind's, on the root's id) and reads no input;
\* delete_root = False invokes no deleter and reads no input.
C5_LeafRootFastPath ==
    children[Root] = <<>> =>
        /\ inputsRead = 0
        /\ Len(calls) <= 1
        /\ ~delete_root => (calls = <<>> /\ (pc = "done" => outcome = "ok"))
        /\ (delete_root /\ Registered(kind[Root]) /\ pc # "entry") =>
              calls = << [kind |-> kind[Root], id |-> Root] >>

C5_Witness ==
    /\ children[Root] = <<>> /\ delete_root /\ pc = "done" /\ outcome = "ok"
    /\ Len(calls) = 1 /\ deleted = {Root} /\ inputsRead = 0

\* C6: the deleter calls are, at every moment, a prefix of the post-order
\* traversal taking each node's children in the order of its children list,
\* the whole traversal once the call has returned normally; at most one
\* deleter call is in progress.
C6_CallsArePostorder ==
    /\ IsPrefix(CallNodes, ExpectedCalls)
    /\ inflight <= 1
    /\ (pc = "done" /\ outcome = "ok") => CallNodes = ExpectedCalls

C6_Witness ==
    /\ pc = "done" /\ outcome = "ok" /\ delete_root
    /\ children[Root] = <<3, 2>>
    /\ CallNodes = <<3, 2, 1>>

\* C7: once a deleter has raised, the call has ended: the failing call is the
\* last one, it was made once, the calls are the post-order prefix ending at
\* the failing node, and the nodes deleted before stay as they are.
C7_DeleterFailureAborts ==
    failedNode # 0 =>
        /\ pc = "done" /\ outcome = "deleter_error" /\ stack = <<>>
        /\ inflight = 0
        /\ calls # <<>> /\ calls[Len(calls)].id = failedNode
        /\ Cardinality({ i \in 1..Len(calls) : calls[i].id = failedNode }) = 1
        /\ IsPrefix(CallNodes, ExpectedCalls)
        /\ deleted = CalledSet \ {failedNode}

C7_Witness ==
    /\ failedNode # 0 /\ pc = "done"
    /\ Len(calls) = 2 /\ deleted # {}
    /\ Len(ExpectedCalls) = 3

\* C8: with delete_root = False and the prompt accepted, the deleters of all
\* proper descendants are invoked in post-order (when no deleter raises) and
\* no deleter is invoked on the root.
C8_DescendantsOnly ==
    ~delete_root =>
        /\ Root \notin CalledSet
        /\ (pc = "done" /\ Accepted /\ failedNode = 0) =>
              CallNodes = PostorderKids(Root, 1)

(***************************************************************************)
(* Properties of the plugin loader (checked under SpecPlugins).            *)
(***************************************************************************)
\* the modules the loader is to initialize
LoadedModules == { m \in ModuleSet : ~Skipped(m) }

\* C9: after two or more calls of _ensure_plugins_loaded_once, every plugin
\* module has been initialized exactly once and its registrations have been
\* executed exactly once; the calls after the first imported nothing.
C9_EachPluginInitializedOnce ==
    (lpc = "idle" /\ ensureCalls >= 2) =>
        /\ \A m \in LoadedModules : initCount[m] = 1
        /\ \A m \in Plugins : regCount[m] = 1
        /\ lateImports = 0

\* C10: whenever the loaded flag is true, every plugin module has been
\* initialized, so every kind's checker and deleter is registered.
C10_LoadedFlagMeansInitialized ==
    PLUGINS_LOADED =>
        /\ \A m \in LoadedModules : m \in sysModules /\ initCount[m] >= 1
        /\ \A m \in Plugins : \A i \in 1..Len(Registrations(m)) :
              LET r == Registrations(m)[i]
              IN  r.kind \in DOMAIN (IF r.reg = "deleter" THEN DELETERS ELSE CHECKERS)

\* (the part of C9 that holds: no call after the first imports or registers)
LaterCallsImportNothing ==
    /\ lateImports = 0
    /\ \A m \in ModuleSet : initCount[m] <= 1 /\ regCount[m] <= 1

(***************************************************************************)
(* Properties of the NAT deletion gate (checked under SpecTier).           *)
(***************************************************************************)
EventsAt(e) == { i \in 1..Len(tlog) : tlog[i].ev = e }
\* "y" or "yes", in any case, with any whitespace around it
YesTokens ==
    {<<"y">>, <<"Y">>} \cup
    { <<a, b, c>> : a \in {"y", "Y"}, b \in {"e", "E"}, c \in {"s", "S"} }
SaysYes(l) ==
    \E i \in 1..(Len(l) + 1) : \E j \in 0..Len(l) :
        /\ \A k \in 1..(i - 1) : l[k] = " "
        /\ \A k \in (j + 1)..Len(l) : l[k] = " "
        /\ SubSeq(l, i, j) \in YesTokens
AcceptedAt == { i \in EventsAt("confirm") : SaysYes(tlog[i].line) }
DeclinedAt == { i \in EventsAt("confirm") : ~SaysYes(tlog[i].line) }
CountdownOverAt == EventsAt("cd_expired") \cup EventsAt("cd_skipped")

\* C3: if the confirmation was declined, the NAT deletion step and the NAT
\* gateway deleter are never invoked in the operation, which ends cancelled;
\* if it was accepted and the countdown then expired or was skipped, the next
\* thing the operation does is invoke the NAT deletion step.
C3_DeclineBlocksAcceptProceeds ==
    /\ DeclinedAt # {} =>
          /\ EventsAt("nat_deleter") = {} /\ EventsAt("nat_step") = {}
          /\ EventsAt("vpc_delete") = {}
          /\ tpc \in {"stopping", "done"} /\ texit = "cancelled"
    /\ \A k \in CountdownOverAt :
          (\E j \in AcceptedAt : j < k) =>
              IF k = Len(tlog) THEN tpc = "nat_step"
              ELSE tlog[k + 1].ev = "nat_step"

C3_Witness ==
    /\ op = "network"
    /\ \E j \in AcceptedAt : \E k \in EventsAt("cd_skipped") :
          /\ j < k
          /\ k + 1 \in EventsAt("nat_step")
          /\ k + 2 \in EventsAt("nat_deleter")

\* C4: the nat-gateway deleter is invoked only after an accepted confirmation
\* and, after it, a countdown that completed or was skipped, both in the same
\* operation.
C4_DeleterOnlyAfterGate ==
    \A i \in EventsAt("nat_deleter") :
        \E j \in AcceptedAt : \E k \in CountdownOverAt : j < k /\ k < i

\* C11: a skip that arrives after k < N ticks ends the countdown at that
\* tick, control being at the statement after the call with k ticks counted
\* and no failure raised; a countdown that ran out did so after N ticks.
C11_SkipReturnsAtOnce ==
    /\ tpc = "countdown" => elapsed <= CountdownTicks
    /\ (tlog # <<>> /\ tlog[Len(tlog)].ev = "cd_skipped") =>
          /\ elapsed < CountdownTicks
          /\ tpc = "nat_step" /\ texit = "none" /\ ~spinner_prompt
    /\ (tlog # <<>> /\ tlog[Len(tlog)].ev = "cd_expired") =>
          /\ elapsed = CountdownTicks
          /\ tpc = "nat_step" /\ texit = "none" /\ ~spinner_prompt

C11_Witness ==
    /\ tlog # <<>> /\ tlog[Len(tlog)].ev = "cd_skipped"
    /\ elapsed >= 1 /\ CountdownTicks - elapsed >= 1
    /\ tpc = "nat_step"

\* C12: after an interrupt during the countdown the operation ends with the
\* cancellation failure; nothing is invoked after the interrupt (it stays the
\* last thing the operation did) and control only goes to the finally
\* clause.
C12_InterruptCancels ==
    \A i \in EventsAt("cd_interrupted") :
        /\ i = Len(tlog)
        /\ tpc \in {"stopping", "done"}
        /\ texit = "cancelled"
        /\ ~spinner_prompt

C12_Witness ==
    /\ Len(tlog) \in EventsAt("cd_interrupted")
    /\ EventsAt("routes_delete") # {}
    /\ elapsed >= 1
    /\ tpc = "done"

\* the gate checks that were answered "the NAT gateway does not exist"
AbsentAt == { i \in EventsAt("gate_check") : tlog[i].line = <<"absent">> }
GateOutput == {"banner", "cd_notice", "confirm", "confirm_interrupted",
               "cd_expired", "cd_skipped", "cd_interrupted"}

\* C13: a gate function whose existence check says the NAT gateway does not
\* exist returns to its caller at once: no banner, no line read, no
\* countdown, the reporter not in prompt mode, no failure.
C13_AbsentGateIsSilent ==
    \A i \in AbsentAt :
        IF i = Len(tlog)
        THEN /\ ~spinner_prompt
             /\ texit \notin {"cancelled", "interrupted"}
             /\ tpc \notin {"confirm_check", "confirm_read", "countdown"}
        ELSE tlog[i + 1].ev \notin GateOutput

C13_Witness ==
    /\ op = "routing"
    /\ Cardinality(AbsentAt) = 2
    /\ EventsAt("nat_step") # {}

\* C14: the confirmation returns to its caller exactly when the line it read
\* is an affirmative token; after any other line the operation ends with
\* the cancellation failure and nothing more is invoked.
C14_ReturnsIffAffirmative ==
    \A i \in EventsAt("confirm") :
        IF SaysYes(tlog[i].line)
        THEN IF i = Len(tlog)
             THEN /\ tpc \notin {"confirm_check", "confirm_read"}
                  /\ texit \notin {"cancelled", "interrupted"}
             ELSE TRUE
        ELSE /\ i = Len(tlog)
             /\ tpc \in {"stopping", "done"}
             /\ texit = "cancelled"

C14_Witness ==
    /\ \E i \in EventsAt("confirm") :
          /\ tlog[i].line = <<" ", "Y", "E", "S", " ">>
          /\ i < Len(tlog)
    /\ EventsAt("nat_step") # {}

(***************************************************************************)
(* Properties of the progress reporter (checked under SpecSpinner).        *)
(***************************************************************************)
\* C15: a write of print() that goes through the proxy while the render loop
\* is alive and prompt mode is off never lands on a line that holds an
\* animation frame, and no frame is painted onto a line of foreign output
\* that has not received its newline.
C15_ForeignOutputNeverMeetsFrame ==
    /\ ~(lastw.by = "print" /\ lastw.active /\ lastw.onto = "frame")
    /\ ~(lastw.who = "loop" /\ lastw.what = "frame" /\ lastw.onto = "foreign")

\* C16: the render loop writes no frame between the return of
\* _spinner_set_prompt(True, msg) and the call of _spinner_set_prompt(False).
C16_NoFrameInPromptMode ==
    ~(loopw.what = "frame" /\ loopw.held)

\* C17: every frame the render loop paints carries a label and an elapsed
\* time computed from the start time of that same label's task.
C17_LabelAndTimerGoTogether ==
    loopw.what = "frame" =>
        /\ loopw.task + 1 \in DOMAIN task_starts
        /\ loopw.from = task_starts[loopw.task + 1]

C17_Witness ==
    /\ loopw.what = "frame"
    /\ loopw.task = 2
    /\ task_starts[2] # task_starts[3]
    /\ lastw.who = "loop"

\* C18: once _spinner_stop_now has returned the render loop has ended, its
\* last write was the clearing of the line, it wrote nothing after the
\* return, and sys.stdout is the original stream.
C18_NothingAfterStop ==
    StopReturned =>
        /\ rpc = "dead"
        /\ loopw.what = "clear"
        /\ ~loopw.stopped
        /\ ~stdout_patched

BuiltNodes == DOMAIN kind
ChecksOf(n) == { i \in DOMAIN checker_calls : checker_calls[i].node = n }
ChildBlockers(n) ==
    [j \in DOMAIN children[n] |->
        [kind |-> kind[children[n][j]], id |-> node_id[children[n][j]]]]

\* C20: in the tree build_tree returns, the children of every node are what
\* the checker registered for the node's kind returned for the node's id, in
\* that order, that checker having been invoked once for the node; a node
\* whose kind has no checker has no children and no checker was invoked.
C20_ChildrenAreCheckerResult ==
    (bpc = "done" /\ bout = "returned") =>
        \A n \in BuiltNodes :
            IF kind[n] \in DOMAIN CHECKERS
            THEN /\ Cardinality(ChecksOf(n)) = 1
                 /\ \A i \in ChecksOf(n) :
                       /\ checker_calls[i].kind = kind[n]
                       /\ checker_calls[i].id = node_id[n]
                       /\ ChildBlockers(n) = checker_calls[i].result
            ELSE /\ ChecksOf(n) = {}
                 /\ children[n] = <<>>

C20_Witness ==
    /\ bpc = "done" /\ bout = "returned"
    /\ Len(children[1]) = 2
    /\ node_id[children[1][1]] > node_id[children[1][2]]
    /\ \E n \in BuiltNodes :
          kind[n] \notin DOMAIN CHECKERS /\ reports[node_id[n]] # <<>>
    /\ Len(checker_calls) = 2

\* the resources a build visits: r blocks on b when a checker is registered
\* for the kind of r and reports b
BlockedBy(r) == IF world_kind[r] \in DOMAIN CHECKERS
                THEN { reports[r][i] : i \in DOMAIN reports[r] }
                ELSE {}

RECURSIVE ReachFrom(_)
ReachFrom(S) ==
    LET T == S \cup UNION { BlockedBy(r) : r \in S }
    IN  IF T = S THEN S ELSE ReachFrom(T)

\* the root reaches a resource that reaches itself
CyclicReachable == \E r \in ReachFrom({1}) : r \in ReachFrom(BlockedBy(r))

CheckerLookup == bpc = "expanding" \/ Len(checker_calls) > 0

\* prompt_and_delete is about to look up, or has looked up, a deleter
DeleterLookup == pc \in {"entry", "prompt", "walk", "in_deleter"} \/ Len(calls) > 0

\* the loader call of this operation is over, did not raise, and if it ran the
\* loop over the modules it ran it to the end
LoadCompleted ==
    /\ lpc = "idle"
    /\ ensureCalls = 1
    /\ ~loadRaised
    /\ loadIdx = 0 \/ loadIdx > Len(PkgModules)

\* C22: a checker or deleter lookup happens only with the loaded flag set and
\* after the loader call of the operation has completed; an operation whose
\* loader call raised looks nothing up.
C22_LookupsAfterLoad ==
    /\ (CheckerLookup \/ DeleterLookup) => (PLUGINS_LOADED /\ LoadCompleted)
    /\ bout = "load_error" => (checker_calls = <<>> /\ kind = <<>>)
    /\ outcome = "load_error" => calls = <<>>

C22_Witness ==
    /\ Len(checker_calls) > 0
    /\ loadIdx > Len(PkgModules)
    /\ importsInCall > 0
    /\ PLUGINS_LOADED

C22_WitnessDeleter ==
    /\ Len(calls) > 0
    /\ loadIdx > Len(PkgModules)
    /\ importsInCall > 0
    /\ PLUGINS_LOADED

(***************************************************************************)
(* Properties of the registries (SpecRegistry).                            *)
(***************************************************************************)
\* the calls made on one registry, in order
CallsOn(which) == SelectSeq(registered, LAMBDA c : c.reg = which)

\* the position of the last call for kind k among the calls cs (0: none)
LastFor(cs, k) ==
    LET at == { i \in 1..Len(cs) : cs[i].kind = k }
    IN  IF at = {} THEN 0 ELSE CHOOSE i \in at : \A j \in at : j <= i

\* C23: each registry holds exactly the kinds registered in it, each with the
\* function of the last registration made for that kind in that registry;
\* the calls made on the other registry play no part.
C23_LastRegistrationWins ==
    /\ DOMAIN DELETERS = { c.kind : c \in Range(CallsOn("deleter")) }
    /\ DOMAIN CHECKERS = { c.kind : c \in Range(CallsOn("checker")) }
    /\ \A k \in DOMAIN DELETERS :
         DELETERS[k] = CallsOn("deleter")[LastFor(CallsOn("deleter"), k)].fn
    /\ \A k \in DOMAIN CHECKERS :
         CHECKERS[k] = CallsOn("checker")[LastFor(CallsOn("checker"), k)].fn

\* the deleter of internet-gateway registered by vpc.py, then by igw.py, and
\* a checker registered in between
C23_Witness ==
    /\ Len(registered) = 3
    /\ registered[1] = [reg |-> "deleter", kind |-> "internet-gateway",
                        fn |-> "vpc._delete_igw"]
    /\ registered[2].reg = "checker"
    /\ registered[3] = [reg |-> "deleter", kind |-> "internet-gateway",
                        fn |-> "igw._delete_igw"]
    /\ DELETERS["internet-gateway"] = "igw._delete_igw"

(***************************************************************************)
(* Properties of the waits (SpecWaits).                                    *)
(***************************************************************************)
\* the wait ended because its time was up
WaitTimedOut == w_res \in {"False", "SystemExit: timeout"}

\* C24: when a wait has run into its timeout, a warning has been printed and
\* the operation that waited goes on with its next step.
C24_TimeoutWarnsAndContinues ==
    (WaitTimedOut /\ w_pc \in {"next", "aborted"}) =>
        (w_pc = "next" /\ \E i \in DOMAIN w_out : w_out[i] = "warn")

(***************************************************************************)
(* Properties of the lookups by name (SpecLookup).                         *)
(***************************************************************************)
\* C25: a lookup whose answer lists more than one resource aborts; none
\* returns one of them to a caller that goes on to use it.
C25_AmbiguousLookupAborts ==
    (Len(lk_found) > 1 /\ lk_pc # "call") => lk_pc = "aborted"

(***************************************************************************)
(* Properties of the registered deleters (SpecDeleters).                   *)
(***************************************************************************)
\* C26: no deleter raises because the provider answered "not found"
C26_NotFoundNeverRaises ==
    dl_pc = "raised" => dl_log[Len(dl_log)] # "NotFound"

\* a provider error raised inside the step _run_step("natgw.delete", ...)
ProviderErrorAt(i) == tlog[i] = Event("provider_error")

\* C27: a provider error inside a step of a tier operation halts the tier:
\* nothing of the operation follows it, no [done] line either, and the
\* operation ends with the error.
C27_ProviderErrorHaltsTier ==
    \A i \in 1..Len(tlog) :
        ProviderErrorAt(i) => (i = Len(tlog) /\ texit = "error")

\* the provider calls that create something
CreatingCalls ==
    {"create_vpc", "create_subnet", "create_internet_gateway",
     "attach_internet_gateway", "allocate_address", "create_nat_gateway",
     "create_route_table", "associate_route_table", "create_route",
     "create_security_group", "authorize_security_group_ingress",
     "authorize_security_group_egress", "create_key_pair", "run_instances"}

\* the creating calls the code issues without looking first
Unconditional ==
    {"create_route", "authorize_security_group_ingress",
     "authorize_security_group_egress"}

\* C28 as stated: a run of an up tier operation after a successful one
\* issues no creating provider call and leaves the set of resources as the
\* first run left it.
C28_SecondRunIssuesNoCreate ==
    up_run >= 2 =>
        /\ \A i \in 1..Len(up_calls) : up_calls[i].call \notin CreatingCalls
        /\ prov = prov_first

\* C28, amended: a run after a successful one creates nothing: every
\* creating call it issues is one of the unconditional ones (create_route,
\* the two authorize calls), the provider rejects it as a duplicate, and
\* the set of resources stays as the first run left it.
C28_SecondRunCreatesNothing ==
    up_run >= 2 =>
        /\ \A i \in 1..Len(up_calls) :
              up_calls[i].call \in CreatingCalls =>
                  up_calls[i].call \in Unconditional /\ ~up_calls[i].ok
        /\ prov = prov_first

\* a second up_ec2 that began with nothing has returned, its create_route
\* rejected
C28_Witness ==
    /\ up_op = "up_ec2"
    /\ up_run = 2
    /\ up_pc = "done"
    /\ prov = Left(Len(CreationOrder))
    /\ \E i \in 1..Len(up_calls) : up_calls[i] = [call |-> "create_route", ok |-> FALSE]

\* _StdoutProxy.write is about to test _seal_pending (lines 106-107)
ProxyTestsFlag == fpc = "pw_lock" /\ LockFree(spinner_lock)

\* C29: whenever the stdout proxy tests the seal flag, the flag is true if
\* and only if the render loop has painted a frame since the line was last
\* sealed or cleared; and the foreign content is written only after the
\* line has been sealed or cleared when the flag was found true.
C29_FlagIffFramePainted ==
    /\ ProxyTestsFlag => (seal_pending <=> painted)
    /\ ~(fpc = "pw_write" /\ do_seal)

\* prompt mode is on with the message of activation a
PromptOnWith(a) == spinner_prompt /\ spinner_prompt_msg = a

\* the banners written with the message of activation a
BannersOf(a) == { i \in DOMAIN banners : banners[i] = a }

\* C30: the banner of every activation of prompt mode is written exactly
\* once: never twice, and an activation that stays on is eventually given
\* its banner by the scheduled render loop.
C30_BannerOncePerActivation ==
    \A a \in 1..MaxOps :
        /\ [](Cardinality(BannersOf(a)) <= 1)
        /\ <>[]PromptOnWith(a) => <>(BannersOf(a) # {})

\* the fields shared by the foreground and the render loop
SharedFields ==
    <<current_task, task_start, spinner_prompt, spinner_prompt_msg,
      prompt_line_drawn, seal_pending>>

\* the thread that takes this step holds the reporter lock or, the lock
\* being free, can take it for the step
StepUnderLock ==
    \/ spinner_lock = "none"
    \/ spinner_lock = "fg" /\ fpc' # fpc
    \/ spinner_lock = "loop" /\ rpc' # rpc

\* C31: every write of the state shared between the foreground and the
\* render loop is made by a thread that holds the reporter lock: no shared
\* field changes in a step of one thread while the other holds the lock.
C31_SharedStateUnderLock ==
    [][SharedFields' # SharedFields => StepUnderLock]_vars

\* C32: when a tier operation returns or propagates its failure (the
\* finally clause with _spinner_stop_now is over), the render loop has
\* stopped and sys.stdout is the original stream again; and no step of the
\* operation runs before the reporter was started.
C32_ReporterStoppedOnEveryExit ==
    /\ fpc = "stopped" => (~LoopAlive /\ ~stdout_patched)
    /\ fpc \in {"task_b", "fn", "finish", "fin_reset"} => rpc # "off"

\* the positions inside _confirm_nat_delete and _nat_delete_countdown after
\* their _spinner_set_prompt(True, ...)
InsideGate == tpc \in {"confirm_read", "countdown"}

\* C33: the reporter's prompt mode is on only between the set_prompt(True)
\* of _confirm_nat_delete or _nat_delete_countdown and the exit of that
\* function: whenever the operation is anywhere else, also after the
\* function raised, prompt mode is off.
C33_PromptOffOnEveryExit == spinner_prompt => InsideGate

\* the render threads that are alive
LiveThreads == { i \in DOMAIN threads : Alive(i) }

\* C34: over any sequence of tier operations of one process, at most one
\* render loop thread is alive at any moment.
C34_OneRenderLoop == Cardinality(LiveThreads) <= 1

(***************************************************************************)
(* Termination of the waits (SpecWaitsFair).                               *)
(***************************************************************************)
\* the answers the polls of this wait have had
PollAnswers == {w_polls[i].ans : i \in DOMAIN w_polls}

\* _spin_until has returned
SpinReturned == w_site = "down_tier" /\ w_res \in {"True", "False"}

\* the results of _spin_until: True exactly when a poll saw the predicate
\* true, False only when the time was up and every poll, at least one, saw it
\* false
SpinResultRight ==
    SpinReturned =>
        /\ w_polls # <<>>
        /\ (w_res = "True") <=> ("True" \in PollAnswers)
        /\ w_res = "False" => (TimedOut(w_elapsed) /\ PollAnswers = {"False"})

\* the results of _wait_nat_state: a state of the target set is returned, and
\* the timeout failure is raised only when the time is up
NatResultRight ==
    /\ (w_site # "down_tier" /\ w_pc = "returned") => w_res \in Target(w_site)
    /\ (w_site # "down_tier" /\ w_res = "SystemExit: timeout") =>
           TimedOut(w_elapsed)

\* no poll is made after the poll at which the time was up: the polls are at
\* increasing times, none later than the timeout
NoPollAfterTimeout ==
    /\ \A i \in DOMAIN w_polls : w_polls[i].at <= TimeoutPolls
    /\ \A i, j \in DOMAIN w_polls : i < j => w_polls[i].at < w_polls[j].at
    /\ w_elapsed <= TimeoutPolls

\* C35: every wait ends, provided each poll returns; _spin_until returns True
\* exactly when a poll saw the predicate true (there is always at least one
\* poll) and False after the timeout; _wait_nat_state returns a state of its
\* target set or fails, at the latest when the timeout has elapsed; neither
\* polls again once the timeout was detected.
C35_WaitsTerminate ==
    /\ [](SpinResultRight /\ NatResultRight /\ NoPollAfterTimeout)
    /\ <>(w_pc # "wait")

\* _spin_until has polled at every tick up to the timeout and returned False
C35_Witness ==
    /\ w_site = "down_tier"
    /\ w_res = "False"
    /\ Len(w_polls) = TimeoutPolls + 1
    /\ w_pc = "next"

(***************************************************************************)
(* The release of the address in the nat-gateway deleter (SpecWaits).      *)
(***************************************************************************)
\* the address of the NAT gateway has been released
Released == \E i \in DOMAIN w_out : w_out[i] = "release"

\* C38: in the nat-gateway deleter the address is released only after the
\* NAT gateway was observed deleted (state deleted, or not found), never after
\* a timeout of the wait or state failed.
C38_ReleaseOnlyAfterDeleted ==
    (w_site = "_delete_nat" /\ Released) => w_res = "deleted"

(***************************************************************************)
(* The order of the destructive steps of down_network (SpecTier).          *)
(***************************************************************************)
\* the place of a destructive step in down_network (full_setup.py 448-469);
\* 0 for an entry of the log that is no step
StepRank(e) ==
    CASE e = Event("ec2_delete") -> 1
      [] e = Event("routes_delete") -> 2
      [] e = Event("nat_step") -> 3
      [] e = Event("vpc_delete") -> 4
      [] e = Event("purge_keypair") -> 5
      [] OTHER -> 0

\* the steps that ran, ran in the order of the code
DownNetworkOrdered ==
    \A i, j \in DOMAIN tlog :
        (i < j /\ StepRank(tlog[i]) > 0 /\ StepRank(tlog[j]) > 0) =>
            StepRank(tlog[i]) < StepRank(tlog[j])

\* no step runs after a step has failed
FailureStopsSteps ==
    \A i, j \in DOMAIN tlog :
        (i < j /\ ProviderErrorAt(i)) => StepRank(tlog[j]) = 0

\* C36: in down_network the destructive steps run in the order instances,
\* private route table, NAT gateway, VPC, key-pair purge, each after the
\* previous one returned, and a failure in a step prevents all later steps.
C36_StepsInOrderFailureStops ==
    op = "network" => (DownNetworkOrdered /\ FailureStopsSteps)

(***************************************************************************)
(* The prompt of prompt_and_delete (SpecTeardown).                         *)
(***************************************************************************)
\* C37: vpc.delete (prompt_and_delete on a tree rooted at the VPC, with
\* delete_root = True) reads no confirmation input between the building of
\* the tree and the deleters, whatever the tree, children or not.
C37_VpcDeleteNeverPrompts ==
    (kind[Root] = "vpc" /\ delete_root) => (inputsRead = 0 /\ pc # "prompt")

\* the kinds of the nodes to delete that have no registered deleter
Lacking ==
    { kind[n] : n \in (IF delete_root THEN Nodes ELSE Nodes \ {Root}) }
        \ DOMAIN DELETERS

\* an answer other than y / yes ends the call with DeleteBlocked and no
\* deleter invoked
DeclineBlocks ==
    (inputsRead > 0 /\ ~SaysYes(ans)) =>
        (pc = "done" /\ outcome = "declined" /\ calls = <<>>)

\* C39: for a root with children the missing deleters are checked before the
\* answer is read, so no prompt is made when a deleter is missing; and an
\* answer other than y / yes raises DeleteBlocked with no deleter invoked.
C39_CheckBeforePromptDeclineBlocks ==
    HasChildren(Root) =>
        /\ Lacking # {} => (inputsRead = 0 /\ pc # "prompt")
        /\ DeclineBlocks

(***************************************************************************)
(* The reporter lock (SpecSpinner).                                        *)
(***************************************************************************)
\* the thread that holds the lock is inside one of the two critical sections
\* that take more than one step, and the lock belongs to the thread inside
LockHolderInside ==
    /\ spinner_lock = "loop" <=> rpc = "read_b"
    /\ spinner_lock = "fg" <=> fpc = "task_b"
    /\ spinner_lock \in {"none", "loop", "fg"}

\* the holder's next step is the release, and nothing keeps it from it
ReleaseEnabled ==
    /\ spinner_lock = "loop" => ENABLED L_ReadTask
    /\ spinner_lock = "fg" => ENABLED R_SetTaskStart

\* a step of the holder while it holds the lock releases the lock, writes
\* nothing to the terminal and lets no time pass (no sleep, no input, no
\* provider call)
HolderStepReleases ==
    /\ (spinner_lock = "loop" /\ rpc' # rpc) =>
          (spinner_lock' = "none" /\ UNCHANGED <<term, lastw, loopw, now>>)
    /\ (spinner_lock = "fg" /\ fpc' # fpc) =>
          (spinner_lock' = "none" /\ UNCHANGED <<term, lastw, loopw, now>>)

\* C40: the reporter cannot deadlock: no thread acquires the lock while it
\* holds it, the lock is never held across a terminal write, a sleep, an
\* input read or a provider call, and the holder can always release it, so
\* every acquisition succeeds in the end.
C40_LockNeverBlocksForever ==
    /\ [](LockHolderInside /\ ReleaseEnabled)
    /\ [][HolderStepReleases]_vars

\* the render loop has come to "with _spinner_lock" while the foreground is
\* inside _spinner_set_task with the lock held
C40_Witness == spinner_lock = "fg" /\ rpc = "read_a"

====
